---- MODULE Spec2Model ----
(***************************************************************************)
(* State-machine model of the Apex debug-log parser (ApexLogParser.ts).    *)
(*                                                                         *)
(* The parser object is modelled field by field.  Tree nodes live in a     *)
(* heap `nodes` (a sequence, in allocation order); a reference to a node   *)
(* is its index in the heap and Null is the null reference.  An optional   *)
(* JavaScript value is the empty sequence (undefined) or a one-element     *)
(* sequence <<v>>.  Timestamps are nanoseconds; durationMs is kept in      *)
(* thousandths of a millisecond, the unit closeNode rounds to.             *)
(***************************************************************************)
EXTENDS Integers, Sequences, FiniteSets, TLC

VARIABLES
    nodes,        \* heap of TreeNode objects, in allocation order
    rootNode,     \* ApexLogParser.rootNode
    currentNode,  \* ApexLogParser.currentNode (Null after the stack empties)
    nodeStack,    \* ApexLogParser.nodeStack, bottom first
    counter,      \* IdGenerator.counter
    user,         \* ApexLogParser.user
    pc,           \* position of parse(): "parsing", "done" or "threw"
    nEvents,      \* number of event records parseLine has been called on
    ev,           \* the event record handled last (history)
    pre,          \* the parser fields right before that record (history)
    out,          \* the ParsedLog returned by parse(), once pc = "done"
    pending,      \* begin tags the well-nested generator has not yet ended
    splitter,     \* the ApexLogSplitter object, its callback's record, history
    call,         \* a call of a ParserUtils function: name, argument, result
    logLevels,    \* ApexLogParser.logLevels
    run           \* parse() calls made on the instance; header and records
                  \* of the log of the current one (history)

vars == <<nodes, rootNode, currentNode, nodeStack, counter, user, pc,
          nEvents, ev, pre, out, pending, splitter, call, logLevels, run>>

-----------------------------------------------------------------------------
(* Optional values and references                                          *)

None == <<>>
Some(v) == <<v>>
IsSome(o) == o # <<>>
Null == 0

\* No ParserUtils function is being called.
NoCall == [fn |-> "", arg |-> None, result |-> None]

\* JavaScript truthiness of an optional number: undefined and 0 are falsy.
Truthy(o) == IsSome(o) /\ o[1] # 0

Last(s) == s[Len(s)]
Front(s) == SubSeq(s, 1, Len(s) - 1)

-----------------------------------------------------------------------------
(* Bounds of the model                                                     *)

\* Event records fed to one parse by the general generator.
MaxEvents == 3
\* Begin/end pairs fed to one parse by the well-nested generator.
MaxPairs == 2
\* Nanoseconds between two ticks of the clock of the general generator.
TickNs == 700

\* The k-th record of the general generator carries this timestamp when its
\* timing field is well formed: 700, 2100, 4200, 7000, ... so that interval
\* lengths fall below, on and above a half thousandth of a millisecond.
TimeOf(k) == TickNs * ((k * (k + 1)) \div 2)

\* Timestamps of the well-nested generator (non-decreasing choices of these).
NestedTimes == {0, 700, 4200}

PkgNames == {"pkgA", "pkgB"}

-----------------------------------------------------------------------------
(* Event tags of the dispatcher (parseLine's switch)                        *)

OpeningEvents ==
    {"CODE_UNIT_STARTED", "METHOD_ENTRY", "SOQL_EXECUTE_BEGIN", "DML_BEGIN",
     "EXECUTION_STARTED", "FLOW_START_INTERVIEW_BEGIN", "FLOW_ELEMENT_BEGIN",
     "FLOW_BULK_ELEMENT_BEGIN", "FLOW_START_INTERVIEWS_BEGIN",
     "ENTERING_MANAGED_PKG", "CALLOUT_REQUEST"}

ClosingEvents ==
    {"CODE_UNIT_FINISHED", "METHOD_EXIT", "SOQL_EXECUTE_END", "DML_END",
     "EXECUTION_FINISHED", "FLOW_START_INTERVIEW_END", "FLOW_BULK_ELEMENT_END",
     "FLOW_START_INTERVIEWS_END", "FLOW_ELEMENT_END", "CALLOUT_RESPONSE"}

mapTypeByTypeExit ==
    [t \in ClosingEvents |->
        CASE t = "CODE_UNIT_FINISHED" -> "CODE_UNIT"
          [] t = "METHOD_EXIT" -> "METHOD"
          [] t = "SOQL_EXECUTE_END" -> "SOQL"
          [] t = "DML_END" -> "DML"
          [] t = "EXECUTION_FINISHED" -> "EXECUTION"
          [] t = "FLOW_START_INTERVIEW_END" -> "FLOW_START_INTERVIEW"
          [] t = "FLOW_BULK_ELEMENT_END" -> "FLOW_BULK_ELEMENT"
          [] t = "FLOW_START_INTERVIEWS_END" -> "FLOW"
          [] t = "FLOW_ELEMENT_END" -> "FLOW_ELEMENT"
          [] t = "CALLOUT_RESPONSE" -> "CALLOUT"]

\* The variant each opening tag's handler gives its node.
typeOfOpening ==
    [t \in OpeningEvents |->
        CASE t = "CODE_UNIT_STARTED" -> "CODE_UNIT"
          [] t = "METHOD_ENTRY" -> "METHOD"
          [] t = "SOQL_EXECUTE_BEGIN" -> "SOQL"
          [] t = "DML_BEGIN" -> "DML"
          [] t = "EXECUTION_STARTED" -> "EXECUTION"
          [] t = "FLOW_START_INTERVIEW_BEGIN" -> "FLOW_START_INTERVIEW"
          [] t = "FLOW_ELEMENT_BEGIN" -> "FLOW_ELEMENT"
          [] t = "FLOW_BULK_ELEMENT_BEGIN" -> "FLOW_BULK_ELEMENT"
          [] t = "FLOW_START_INTERVIEWS_BEGIN" -> "FLOW"
          [] t = "ENTERING_MANAGED_PKG" -> "MANAGED_PKG"
          [] t = "CALLOUT_REQUEST" -> "CALLOUT"]

-----------------------------------------------------------------------------
(* Field extraction utilities                                              *)

\* The timing field of a record is modelled by the nanosecond value between
\* its parentheses, None when it has no parenthesised value.
extractTimestamp(executionTimePart) ==
    IF IsSome(executionTimePart) THEN executionTimePart[1] ELSE 0

\* A millisecond quantity before rounding is kept in millionths of a
\* millisecond, so n nanoseconds are the raw quantity n (every number of the
\* model is finite).
covertNsToMs(timestampNs) == timestampNs

\* Math.round((raw + Number.EPSILON) * 1000) / 1000: a raw quantity rounded to
\* 3 decimals, half rounding up; the result in thousandths of a millisecond.
roundTo3Decimals(raw) == (raw + 500) \div 1000

-----------------------------------------------------------------------------
(* parseGovernorLimits                                                     *)
(*                                                                         *)
(* A line of a limits block is modelled by what parseUsageLine reads of    *)
(* it: whether it is blank, the text before its first colon (None when it  *)
(* has no colon), whether " out of " follows, and the integers parseInt    *)
(* reads on both sides of it (None for NaN).                               *)

\* Lines of a limits block.
MaxBlockLines == 2

LimitTypes ==
    {"SOQL_QUERIES", "SOQL_ROWS", "SOSL_SEARCHES", "DML_STATEMENTS", "DML_ROWS",
     "CPU_TIME", "HEAP_SIZE", "CALLOUTS", "EMAIL_INVOCATIONS", "FUTURE_CALLS",
     "QUEUEABLE_JOBS", "MOBILE_APEX_PUSH"}

defaultLimitDetails == [current |-> 0, max |-> 0, usagePercentage |-> 0]

LogStrings ==
    {"Number of SOQL queries", "Number of query rows", "Number of SOSL queries",
     "Number of DML statements", "Number of Publish Immediate DML",
     "Number of DML rows", "Maximum CPU time", "Maximum heap size",
     "Number of callouts", "Number of Email Invocations",
     "Number of future calls", "Number of queueable jobs added to the queue",
     "Number of Mobile Apex push calls"}

limitTypeByLogString ==
    [l \in LogStrings |->
        CASE l = "Number of SOQL queries" -> "SOQL_QUERIES"
          [] l = "Number of query rows" -> "SOQL_ROWS"
          [] l = "Number of SOSL queries" -> "SOSL_SEARCHES"
          [] l = "Number of DML statements" -> "DML_STATEMENTS"
          [] l = "Number of Publish Immediate DML" -> "DML_STATEMENTS"
          [] l = "Number of DML rows" -> "DML_ROWS"
          [] l = "Maximum CPU time" -> "CPU_TIME"
          [] l = "Maximum heap size" -> "HEAP_SIZE"
          [] l = "Number of callouts" -> "CALLOUTS"
          [] l = "Number of Email Invocations" -> "EMAIL_INVOCATIONS"
          [] l = "Number of future calls" -> "FUTURE_CALLS"
          [] l = "Number of queueable jobs added to the queue" -> "QUEUEABLE_JOBS"
          [] l = "Number of Mobile Apex push calls" -> "MOBILE_APEX_PUSH"]

UsageLine(blank, label, outOf, current, max) ==
    [blank |-> blank, label |-> label, outOf |-> outOf,
     current |-> current, max |-> max]

\* The sampled lines: recognized labels (two of them of one category), a
\* label the table does not hold, counts that parse or do not, and the
\* malformed shapes.
SampleLabels ==
    {"Number of SOQL queries", "Number of DML statements",
     "Number of Publish Immediate DML", "Number of widgets"}
SampleCurrents == {None, Some(0), Some(3), Some(29)}
SampleMaxes == {None, Some(0), Some(8), Some(200)}

UsageLines ==
    {UsageLine(FALSE, Some(l), TRUE, c, m) :
        l \in SampleLabels, c \in SampleCurrents, m \in SampleMaxes}
    \cup {UsageLine(TRUE, None, FALSE, None, None),                    \* ""
          UsageLine(FALSE, None, FALSE, None, None),                   \* no colon
          UsageLine(FALSE, Some("Number of SOQL queries"), FALSE, None, None)}

\* Of the sampled counts, those whose product (current / max) * 100, taken in
\* IEEE-754 doubles, falls short of the half its exact value is on:
\* (29 / 200) * 100 is 14.499999999999998.
ShortOfHalf == {<<29, 200>>}

\* Math.round((current / max) * 100) for max > 0: the product rounded half
\* up, where the product is the double the two operations give.
mathRoundPercent(current, max) ==
    IF <<current, max>> \in ShortOfHalf
    THEN (100 * current) \div max
    ELSE (200 * current + max) \div (2 * max)

\* parseUsageLine that adds the counts of the line to those the category
\* already holds.
parseUsageLineSumming(limitsObject, line) ==
    IF line.blank THEN limitsObject
    ELSE IF ~IsSome(line.label) THEN limitsObject
    ELSE IF ~line.outOf THEN limitsObject
    ELSE IF ~IsSome(line.current) \/ ~IsSome(line.max) THEN limitsObject
    ELSE
        LET type == IF line.label[1] \in DOMAIN limitTypeByLogString
                    THEN limitTypeByLogString[line.label[1]]
                    ELSE "undefined"
            held == IF type \in DOMAIN limitsObject
                    THEN limitsObject[type] ELSE defaultLimitDetails
            current == held.current + line.current[1]
            max == held.max + line.max[1]
            detail == [current |-> current, max |-> max,
                       usagePercentage |->
                           IF max > 0 THEN mathRoundPercent(current, max) ELSE 0]
        IN  [k \in (DOMAIN limitsObject) \cup {type} |->
                IF k = type THEN detail ELSE limitsObject[k]]

\* limitsObject[type] = {...}: type is undefined for a label the table does
\* not hold, and the assignment then writes the property "undefined".
parseUsageLine(limitsObject, line) ==
    IF line.blank THEN limitsObject
    ELSE IF ~IsSome(line.label) THEN limitsObject
    ELSE IF ~line.outOf THEN limitsObject
    ELSE IF ~IsSome(line.current) \/ ~IsSome(line.max) THEN limitsObject
    ELSE
        LET current == line.current[1]
            max == line.max[1]
            type == IF line.label[1] \in DOMAIN limitTypeByLogString
                    THEN limitTypeByLogString[line.label[1]]
                    ELSE "undefined"
            detail == [current |-> current, max |-> max,
                       usagePercentage |->
                           IF max > 0 THEN mathRoundPercent(current, max) ELSE 0]
        IN  [k \in (DOMAIN limitsObject) \cup {type} |->
                IF k = type THEN detail ELSE limitsObject[k]]

RECURSIVE parseUsageLines(_, _, _)
\* limitUsageString.split(/\r?\n|\r/).forEach(parseUsageLine)
parseUsageLines(limitsObject, lines, i) ==
    IF i > Len(lines) THEN limitsObject
    ELSE parseUsageLines(parseUsageLine(limitsObject, lines[i]), lines, i + 1)

\* The argument is None (undefined) or the lines of the block.
parseGovernorLimits(limitUsageString) ==
    LET limitsObject == [t \in LimitTypes |-> defaultLimitDetails]
    IN  IF ~IsSome(limitUsageString)
           \/ \A i \in DOMAIN limitUsageString[1] : limitUsageString[1][i].blank
        THEN limitsObject
        ELSE parseUsageLines(limitsObject, limitUsageString[1], 1)

-----------------------------------------------------------------------------
(* The parser's fields as one record, and the operations on it             *)

This ==
    [nodes |-> nodes, rootNode |-> rootNode, currentNode |-> currentNode,
     nodeStack |-> nodeStack, counter |-> counter, user |-> user,
     logLevels |-> logLevels, threw |-> FALSE]

\* A TypeError leaves the handler at once: the fields keep what was written.
Throw(S) == [S EXCEPT !.threw = TRUE]

\* IdGenerator.next(): increments the counter.  The heap keeps the counter
\* value as the id; the string next() returns for it is idText below.
next(S) == [S EXCEPT !.counter = @ + 1]

\* new IdGenerator() as the parser constructs it: prefix = 'evt', padding = 3.
prefix == <<"e", "v", "t">>
padding == 3

DecimalDigits == <<"0", "1", "2", "3", "4", "5", "6", "7", "8", "9">>

RECURSIVE toString(_)
\* Number.prototype.toString(): the decimal digits of a counter value.
toString(n) ==
    IF n < 10 THEN <<DecimalDigits[n + 1]>>
    ELSE Append(toString(n \div 10), DecimalDigits[(n % 10) + 1])

RECURSIVE padStart(_, _, _)
\* String.prototype.padStart with a one-character fill.
padStart(str, targetLength, fill) ==
    IF Len(str) >= targetLength THEN str
    ELSE padStart(<<fill>> \o str, targetLength, fill)

\* The template string of next(): `${prefix}_${counter padded}`.
idText(c) == prefix \o <<"_">> \o padStart(toString(c), padding, "0")

\* A TreeNode object.  Of the variant-specific payload the model keeps name,
\* rows and the callout fields; children is the list of child references
\* (empty where the code leaves it undefined).
TreeNode(id, parentId, type, name, timeStart) ==
    [id |-> id, parentId |-> parentId, type |-> type, name |-> name,
     timeStart |-> timeStart, timeEnd |-> None, durationMs |-> None,
     rows |-> None, response |-> None, namedCredential |-> None,
     children |-> <<>>]

\* reset(): a new heap holding the ROOT node alone.
reset ==
    LET c == 1   \* idGenerator.reset() then next()
    IN  [nodes |-> <<TreeNode(c, None, "ROOT", None, None)>>,
         rootNode |-> 1, currentNode |-> 1, nodeStack |-> <<1>>,
         counter |-> c, user |-> None, logLevels |-> <<>>, threw |-> FALSE]

\* A first line is a sequence of tokens: words, and the characters ' ', ';',
\* ',' and '|' as tokens of their own.

RECURSIVE splitAt(_, _)
\* String.prototype.split(separator): the runs of tokens between the
\* separator tokens, empty runs included.
splitAt(text, separator) ==
    IF \A i \in DOMAIN text : text[i] # separator THEN <<text>>
    ELSE LET i == CHOOSE j \in DOMAIN text :
                      text[j] = separator /\ \A h \in 1..(j - 1) : text[h] # separator
         IN  <<SubSeq(text, 1, i - 1)>> \o splitAt(SubSeq(text, i + 1, Len(text)), separator)

RECURSIVE joinBy(_, _)
\* Array.prototype.join(separator).
joinBy(parts, separator) ==
    IF Len(parts) = 0 THEN <<>>
    ELSE IF Len(parts) = 1 THEN parts[1]
    ELSE parts[1] \o <<separator>> \o joinBy(Tail(parts), separator)

\* '64.0 APEX_CODE,FINEST;DB,;APEX_PROFILING,INFO'
HeaderWithLevels ==
    <<"64.0", " ", "APEX_CODE", ",", "FINEST", ";", "DB", ",", ";",
      "APEX_PROFILING", ",", "INFO">>
\* '64.0'
HeaderWithoutLevels == <<"64.0">>
\* An event record: '12:00:00.0 (700)|USER_INFO|[EXTERNAL]|005|user@example.com|GMT'
EventRecordLine ==
    <<"12:00:00.0", " ", "(700)", "|", "USER_INFO", "|", "[EXTERNAL]", "|", "005",
      "|", "user@example.com", "|", "GMT">>
\* An event record whose payload holds a comma:
\* '12:00:00.0 (700)|SOQL_EXECUTE_BEGIN|[5]|Aggregations:0|SELECT Id, Name FROM Account'
EventRecordLineWithComma ==
    <<"12:00:00.0", " ", "(700)", "|", "SOQL_EXECUTE_BEGIN", "|", "[5]", "|",
      "Aggregations:0", "|", "SELECT", " ", "Id", ",", " ", "Name", " ", "FROM",
      " ", "Account">>
\* The first lines of the logs given to parse().
Headers ==
    {HeaderWithLevels, HeaderWithoutLevels, EventRecordLine, EventRecordLineWithComma}

\* const [type, level] = pair.split(','): a missing level is undefined,
\* which is falsy as the empty string is, and is modelled by it.
typeAndLevel(pair) ==
    LET p == splitAt(pair, ",")
    IN  [type |-> p[1], level |-> IF Len(p) >= 2 THEN p[2] ELSE <<>>]

\* handleDebugLevels: a pair is pushed when its type and level are truthy.
handleDebugLevels(S, firstLine) ==
    LET parts == splitAt(firstLine, " ")
        levels == joinBy(Tail(parts), " ")
        levelPairs == splitAt(levels, ";")
        pairs == [k \in 1..Len(levelPairs) |-> typeAndLevel(levelPairs[k])]
    IN  IF Len(parts) < 2 THEN S
        ELSE [S EXCEPT !.logLevels =
                 @ \o SelectSeq(pairs, LAMBDA pair : pair.type # <<>> /\ pair.level # <<>>)]

closeNode(S, timestamp) ==
    IF Len(S.nodeStack) = 0 THEN S
    ELSE
        LET n == Last(S.nodeStack)
            stack == Front(S.nodeStack)
            node == S.nodes[n]
            rawDuration ==
                IF Truthy(node.timeStart)
                THEN covertNsToMs(timestamp[1] - node.timeStart[1])
                ELSE 0
            closed ==
                IF Truthy(timestamp)
                THEN [node EXCEPT !.timeEnd = timestamp,
                                  !.durationMs = Some(roundTo3Decimals(rawDuration))]
                ELSE node
        IN  [S EXCEPT !.nodes[n] = closed,
                      !.nodeStack = stack,
                      !.currentNode = IF Len(stack) > 0 THEN Last(stack) ELSE Null]

\* pushNode that links every node under the root instead of the current node.
pushNodeUnderRoot(S, node) ==
    IF S.currentNode = Null THEN S
    ELSE
        LET n == Len(S.nodes) + 1
        IN  [S EXCEPT !.nodes = Append([@ EXCEPT ![S.rootNode].children = Append(@, n)], node),
                      !.nodeStack = Append(@, n),
                      !.currentNode = n]

\* pushNode that links the node under the node created last instead of the
\* current node.
pushNodeUnderLastNode(S, node) ==
    IF S.currentNode = Null THEN S
    ELSE
        LET n == Len(S.nodes) + 1
        IN  [S EXCEPT !.nodes = Append([@ EXCEPT ![Len(S.nodes)].children = Append(@, n)], node),
                      !.nodeStack = Append(@, n),
                      !.currentNode = n]

pushNode(S, node) ==
    IF S.currentNode = Null THEN S
    ELSE
        LET n == Len(S.nodes) + 1
        IN  [S EXCEPT !.nodes = Append([@ EXCEPT ![S.currentNode].children = Append(@, n)], node),
                      !.nodeStack = Append(@, n),
                      !.currentNode = n]

\* The object literal every node-creating handler builds, then pushNode:
\* idGenerator.next() is evaluated first, then this.currentNode.id, which is
\* a TypeError when currentNode is null.
openNode(S, type, name, timestamp) ==
    LET S1 == next(S)
    IN  IF S.currentNode = Null THEN Throw(S1)
        ELSE pushNode(S1, TreeNode(S1.counter, Some(S.nodes[S.currentNode].id),
                                   type, name, Some(timestamp)))

\* eventData = parts.slice(2): the number of payload fields of a record.
payloadLength(eventData) == eventData.fields - 2

\* The row count after the colon of a field such as "Rows:5", None when the
\* field has no parseable count.
extractRows(rowsField) == IF IsSome(rowsField) THEN rowsField[1] ELSE 0

RECURSIVE unwindTo(_, _, _)
\* The while loop of handleNodeExit.
unwindTo(S, timestamp, target) ==
    IF Len(S.nodeStack) > 0 /\ S.nodes[Last(S.nodeStack)].type # target
    THEN unwindTo(closeNode(S, Some(timestamp)), timestamp, target)
    ELSE S

handleNodeExit(S, timestamp, type) ==
    IF Len(S.nodeStack) = 0 THEN S
    ELSE closeNode(unwindTo(S, timestamp, mapTypeByTypeExit[type]), Some(timestamp))

RECURSIVE unwindFatal(_, _)
\* The while loop of handleFatalError.
unwindFatal(S, timestamp) ==
    IF S.currentNode # Null
       /\ S.nodes[S.currentNode].type # "CODE_UNIT"
       /\ S.nodes[S.currentNode].type # "ROOT"
    THEN unwindFatal(closeNode(S, Some(timestamp)), timestamp)
    ELSE S

\* handleFatalError with the unwinding carried through the CODE_UNIT it
\* should stop at.
handleFatalErrorThroughCodeUnit(S, timestamp, eventData) ==
    LET S1 == openNode(S, "EXCEPTION", None, timestamp)
        S2 == unwindFatal(S1, timestamp)
    IN  IF payloadLength(eventData) = 0 THEN Throw(next(S))
        ELSE IF S1.threw THEN S1
        ELSE IF S2.currentNode # Null /\ S2.nodes[S2.currentNode].type = "CODE_UNIT"
        THEN closeNode(S2, Some(timestamp))
        ELSE S2

\* The node literal reads id, parentId, then the message: with no payload
\* field sanitizeString(undefined) is a TypeError, after the id was taken.
handleFatalError(S, timestamp, eventData) ==
    LET S1 == openNode(S, "EXCEPTION", None, timestamp)
    IN  IF payloadLength(eventData) = 0 THEN Throw(next(S))
        ELSE IF S1.threw THEN S1
        ELSE unwindFatal(S1, timestamp)

\* this.user = eventData[eventData.length - 3]: arg stands for that field,
\* which a record of fewer than three payload fields does not have.
handleUserInfo(S, eventData) ==
    [S EXCEPT !.user = IF payloadLength(eventData) >= 3 THEN Some(eventData.arg) ELSE None]

handleCodeUnitStarted(S, timestamp, eventData) ==
    openNode(S, "CODE_UNIT", Some(eventData.arg), timestamp)

\* extractLineNumber(eventData[0]) is a TypeError on a record without
\* payload, after the id was taken.
handleMethodEntry(S, timestamp, eventData) ==
    IF payloadLength(eventData) = 0 THEN Throw(next(S))
    ELSE openNode(S, "METHOD", Some(eventData.arg), timestamp)

handleSoqlExecuteBegin(S, timestamp, eventData) ==
    openNode(S, "SOQL", None, timestamp)

\* extractLineNumber(eventData[0]) and eventData[length - 3].split(':') are
\* TypeErrors on a record of fewer than three payload fields, after the id
\* was taken.
handleDmlBegin(S, timestamp, eventData) ==
    LET S1 == openNode(S, "DML", None, timestamp)
    IN  IF payloadLength(eventData) < 3 THEN Throw(next(S))
        ELSE IF S1.threw \/ S.currentNode = Null THEN S1
        ELSE [S1 EXCEPT !.nodes[S1.currentNode].rows = Some(extractRows(eventData.rows))]

handleExecutionStarted(S, timestamp) ==
    openNode(S, "EXECUTION", None, timestamp)

handleFlowStartInterviewBegin(S, timestamp, eventData) ==
    LET S1 == IF S.currentNode # Null /\ S.nodes[S.currentNode].type = "FLOW"
              THEN [S EXCEPT !.nodes[S.currentNode].name = Some(eventData.arg)]
              ELSE S
    IN  openNode(S1, "FLOW_START_INTERVIEW", Some(eventData.arg), timestamp)

handleFlowElementBegin(S, timestamp, eventData) ==
    openNode(S, "FLOW_ELEMENT", Some(eventData.arg), timestamp)

handleFlowBulkElementStart(S, timestamp, eventData) ==
    openNode(S, "FLOW_BULK_ELEMENT", Some(eventData.arg), timestamp)

handleFlowStartInterviewsBegin(S, timestamp, eventData) ==
    openNode(S, "FLOW", Some(eventData.arg), timestamp)

handleCalloutRequest(S, timestamp, eventData) ==
    openNode(S, "CALLOUT", None, timestamp)

handleEnteringManagedPkg(S, timestamp, eventData) ==
    IF S.currentNode = Null THEN Throw(S)          \* this.currentNode.type
    ELSE IF S.nodes[S.currentNode].type = "MANAGED_PKG" THEN S
    ELSE openNode(S, "MANAGED_PKG", Some(eventData.arg), timestamp)

\* eventData[0].replace(...) comes first: a TypeError on a record without
\* payload, before any id is taken.
handleLimitUsageForNs(S, timestamp, eventData) ==
    LET S1 == openNode(S, "LIMIT", Some(eventData.arg), timestamp)
    IN  IF payloadLength(eventData) = 0 THEN Throw(S)
        ELSE IF S1.threw THEN S1
        ELSE closeNode(S1, None)

\* handleSOQLExit that writes the row count onto the current node whatever
\* its variant.
handleSOQLExitAnyVariant(S, timestamp, eventData) ==
    LET S1 == IF S.currentNode # Null
              THEN [S EXCEPT !.nodes[S.currentNode].rows = Some(extractRows(eventData.rows))]
              ELSE S
    IN  handleNodeExit(S1, timestamp, "SOQL_EXECUTE_END")

handleSOQLExit(S, timestamp, eventData) ==
    LET S1 == IF S.currentNode # Null /\ S.nodes[S.currentNode].type = "SOQL"
              THEN [S EXCEPT !.nodes[S.currentNode].rows = Some(extractRows(eventData.rows))]
              ELSE S
    IN  handleNodeExit(S1, timestamp, "SOQL_EXECUTE_END")

handleCalloutResponse(S, timestamp, eventData) ==
    LET S1 == IF S.currentNode # Null /\ S.nodes[S.currentNode].type = "CALLOUT"
              THEN [S EXCEPT !.nodes[S.currentNode].response = Some(eventData.arg)]
              ELSE S
    IN  handleNodeExit(S1, timestamp, "CALLOUT_RESPONSE")

\* handleNamedCredentialRequest / Response / ResponseDetail: the three write
\* one field each of a current CALLOUT node; the model keeps the last write.
handleNamedCredential(S, eventData) ==
    IF S.currentNode = Null THEN Throw(S)          \* this.currentNode.type
    ELSE IF S.nodes[S.currentNode].type = "CALLOUT"
    THEN [S EXCEPT !.nodes[S.currentNode].namedCredential = Some(eventData.arg)]
    ELSE S

\* The case labels of the switch of parseLine.
KnownEventTypes ==
    {"USER_INFO", "CODE_UNIT_STARTED", "LIMIT_USAGE_FOR_NS", "CODE_UNIT_FINISHED",
     "METHOD_ENTRY", "METHOD_EXIT", "SOQL_EXECUTE_BEGIN", "SOQL_EXECUTE_END",
     "DML_BEGIN", "DML_END", "EXECUTION_STARTED", "EXECUTION_FINISHED",
     "FLOW_START_INTERVIEW_BEGIN", "FLOW_START_INTERVIEW_END",
     "FLOW_ELEMENT_BEGIN", "FLOW_ELEMENT_END", "FATAL_ERROR",
     "ENTERING_MANAGED_PKG", "CALLOUT_REQUEST", "CALLOUT_RESPONSE",
     "NAMED_CREDENTIAL_REQUEST", "NAMED_CREDENTIAL_RESPONSE",
     "NAMED_CREDENTIAL_RESPONSE_DETAIL", "FLOW_BULK_ELEMENT_BEGIN",
     "FLOW_BULK_ELEMENT_END", "FLOW_START_INTERVIEWS_BEGIN",
     "FLOW_START_INTERVIEWS_END"}

\* The switch of parseLine.
dispatch(S, timestamp, eventType, eventData) ==
    CASE eventType = "USER_INFO" -> handleUserInfo(S, eventData)
      [] eventType = "CODE_UNIT_STARTED" -> handleCodeUnitStarted(S, timestamp, eventData)
      [] eventType = "LIMIT_USAGE_FOR_NS" -> handleLimitUsageForNs(S, timestamp, eventData)
      [] eventType = "METHOD_ENTRY" -> handleMethodEntry(S, timestamp, eventData)
      [] eventType = "SOQL_EXECUTE_BEGIN" -> handleSoqlExecuteBegin(S, timestamp, eventData)
      [] eventType = "SOQL_EXECUTE_END" -> handleSOQLExit(S, timestamp, eventData)
      [] eventType = "DML_BEGIN" -> handleDmlBegin(S, timestamp, eventData)
      [] eventType = "EXECUTION_STARTED" -> handleExecutionStarted(S, timestamp)
      [] eventType = "FLOW_START_INTERVIEW_BEGIN" -> handleFlowStartInterviewBegin(S, timestamp, eventData)
      [] eventType = "FLOW_ELEMENT_BEGIN" -> handleFlowElementBegin(S, timestamp, eventData)
      [] eventType = "FATAL_ERROR" -> handleFatalError(S, timestamp, eventData)
      [] eventType = "ENTERING_MANAGED_PKG" -> handleEnteringManagedPkg(S, timestamp, eventData)
      [] eventType = "CALLOUT_REQUEST" -> handleCalloutRequest(S, timestamp, eventData)
      [] eventType = "CALLOUT_RESPONSE" -> handleCalloutResponse(S, timestamp, eventData)
      [] eventType \in {"NAMED_CREDENTIAL_REQUEST", "NAMED_CREDENTIAL_RESPONSE",
                        "NAMED_CREDENTIAL_RESPONSE_DETAIL"} -> handleNamedCredential(S, eventData)
      [] eventType = "FLOW_BULK_ELEMENT_BEGIN" -> handleFlowBulkElementStart(S, timestamp, eventData)
      [] eventType = "FLOW_START_INTERVIEWS_BEGIN" -> handleFlowStartInterviewsBegin(S, timestamp, eventData)
      [] eventType \in {"CODE_UNIT_FINISHED", "METHOD_EXIT", "DML_END",
                        "EXECUTION_FINISHED", "FLOW_START_INTERVIEW_END",
                        "FLOW_ELEMENT_END", "FLOW_BULK_ELEMENT_END",
                        "FLOW_START_INTERVIEWS_END"} -> handleNodeExit(S, timestamp, eventType)
      [] OTHER -> S

\* parseLine without the implicit close of a current MANAGED_PKG node.
parseLineNoImplicitClose(S, line) ==
    IF line.fields < 2 THEN S
    ELSE dispatch(S, extractTimestamp(line.timing), line.type, line)

\* parseLine whose default case closes the current node instead of doing
\* nothing.
parseLineClosingOnDefault(S, line) ==
    IF line.fields < 2 THEN S
    ELSE
        LET timestamp == extractTimestamp(line.timing)
            eventType == line.type
            S1 == IF S.currentNode # Null
                     /\ S.nodes[S.currentNode].type = "MANAGED_PKG"
                     /\ (eventType # "ENTERING_MANAGED_PKG"
                         \/ S.nodes[S.currentNode].name # Some(line.arg))
                  THEN closeNode(S, Some(timestamp))
                  ELSE S
        IN  IF eventType \in KnownEventTypes
            THEN dispatch(S1, timestamp, eventType, line)
            ELSE closeNode(S1, Some(timestamp))

\* An event record: fields is the number of '|'-separated parts of the line,
\* timing its first part, type its second, and of the payload arg is the last
\* field (a name) and rows the row count the last field carries.
parseLine(S, line) ==
    IF line.fields < 2 THEN S
    ELSE
        LET timestamp == extractTimestamp(line.timing)
            eventType == line.type
            S1 == IF S.currentNode # Null
                     /\ S.nodes[S.currentNode].type = "MANAGED_PKG"
                     /\ (eventType # "ENTERING_MANAGED_PKG"
                         \/ S.nodes[S.currentNode].name # Some(line.arg))
                  THEN closeNode(S, Some(timestamp))
                  ELSE S
        IN  dispatch(S1, timestamp, eventType, line)

RECURSIVE flattenEventsChildrenFirst(_, _)
RECURSIVE flattenChildrenFirst(_, _, _)
\* flattenEvents with a node's own event pushed after its children's events
\* (the order in which the nodes are closed).
flattenEventsChildrenFirst(heap, n) ==
    LET eventNode == [id |-> heap[n].id, parentId |-> heap[n].parentId,
                      type |-> heap[n].type, timeStart |-> heap[n].timeStart,
                      timeEnd |-> heap[n].timeEnd, durationMs |-> heap[n].durationMs]
    IN  flattenChildrenFirst(heap, heap[n].children, 1)
        \o (IF heap[n].type = "ROOT" THEN <<>> ELSE <<eventNode>>)

flattenChildrenFirst(heap, children, i) ==
    IF i > Len(children) THEN <<>>
    ELSE flattenEventsChildrenFirst(heap, children[i])
         \o flattenChildrenFirst(heap, children, i + 1)

RECURSIVE flattenEvents(_, _)
RECURSIVE flattenChildren(_, _, _)
\* flattenEvents: the node without its children, then its children's events
\* in order; ROOT itself is left out.
flattenEvents(heap, n) ==
    LET eventNode == [id |-> heap[n].id, parentId |-> heap[n].parentId,
                      type |-> heap[n].type, timeStart |-> heap[n].timeStart,
                      timeEnd |-> heap[n].timeEnd, durationMs |-> heap[n].durationMs]
    IN  (IF heap[n].type = "ROOT" THEN <<>> ELSE <<eventNode>>)
        \o flattenChildren(heap, heap[n].children, 1)

flattenChildren(heap, children, i) ==
    IF i > Len(children) THEN <<>>
    ELSE flattenEvents(heap, children[i]) \o flattenChildren(heap, children, i + 1)

RECURSIVE sumDurations(_, _, _)
\* The reduce of buildOutput: acc + (node.durationMs ?? 0).
sumDurations(heap, children, i) ==
    IF i > Len(children) THEN 0
    ELSE (IF IsSome(heap[children[i]].durationMs) THEN heap[children[i]].durationMs[1] ELSE 0)
         + sumDurations(heap, children, i + 1)

RECURSIVE sumAllDurations(_, _)
\* The durations of every node of the heap from index i on.
sumAllDurations(heap, i) ==
    IF i > Len(heap) THEN 0
    ELSE (IF IsSome(heap[i].durationMs) THEN heap[i].durationMs[1] ELSE 0)
         + sumAllDurations(heap, i + 1)

\* buildOutput with the total taken over every node of the tree instead of
\* the top-level ones.
buildOutputAllNodes(S) ==
    [durationMs |-> roundTo3Decimals(1000 * sumAllDurations(S.nodes, 1)),
     logLevel |-> S.logLevels,
     user |-> S.user,
     tree |-> S.rootNode,
     events |-> flattenEvents(S.nodes, S.rootNode)]

\* buildOutput that reports the nodes still open at the end of the input as
\* closed where they started, with a duration of 0.
buildOutputClosingOpen(S) ==
    LET open == {S.nodeStack[k] : k \in DOMAIN S.nodeStack} \ {S.rootNode}
        heap == [i \in DOMAIN S.nodes |->
                    IF i \in open
                    THEN [S.nodes[i] EXCEPT !.timeEnd = S.nodes[i].timeStart,
                                            !.durationMs = Some(0)]
                    ELSE S.nodes[i]]
    IN  [durationMs |-> roundTo3Decimals(1000 * sumDurations(heap, heap[S.rootNode].children, 1)),
         logLevel |-> S.logLevels,
         user |-> S.user,
         tree |-> S.rootNode,
         events |-> flattenEvents(heap, S.rootNode)]

\* buildOutput: the sum (in thousandths of a millisecond, so 1000 times that
\* in the raw unit) is rounded to 3 decimals once more.
buildOutput(S) ==
    [durationMs |-> roundTo3Decimals(1000 * sumDurations(S.nodes, S.nodes[S.rootNode].children, 1)),
     logLevel |-> S.logLevels,
     user |-> S.user,
     tree |-> S.rootNode,
     events |-> flattenEvents(S.nodes, S.rootNode)]

-----------------------------------------------------------------------------
(* ApexLogSplitter.ts: the multi-log stream splitter                       *)
(*                                                                         *)
(* A line is a sequence of tokens: single characters, and the literal      *)
(* "APEX_CODE," as one token.  A text is a sequence of tokens too, with    *)
(* the token "\n" between its lines.                                       *)

\* Lines of the input stream.
MaxLines == 3
\* Calls of finalize() and of reset() on one splitter.
MaxFinalize == 1
MaxResets == 1

Digits == {"0", "1", "2", "3", "4", "5", "6", "7", "8", "9"}
Whitespace == {" ", "\t"}

SampleLines ==
    {<<"6", "4", ".", "0", " ", "APEX_CODE,", "F">>,     \* a log header
     <<"9", ".", "1", " ", "\t", "APEX_CODE,">>,         \* another header
     <<" ", "6", "4", ".", "0", " ", "APEX_CODE,">>,     \* header text, indented
     <<"6", "4", ".", "0", "APEX_CODE,">>,               \* no whitespace
     <<"1", "2", ":", "0", "0", "|", "M">>,              \* an event record
     <<>>}                                               \* an empty line

RECURSIVE skipWhile(_, _, _)
\* The first position from i on whose token is not in class (Len + 1 if none).
skipWhile(line, i, class) ==
    IF i <= Len(line) /\ line[i] \in class THEN skipWhile(line, i + 1, class) ELSE i

\* isLogStart: /^\d+\.\d+\s+APEX_CODE,/ tested on the line.
isLogStart(line) ==
    LET a == skipWhile(line, 1, Digits)
        b == skipWhile(line, a + 1, Digits)
        c == skipWhile(line, b, Whitespace)
    IN  /\ a > 1
        /\ a <= Len(line) /\ line[a] = "."
        /\ b > a + 1
        /\ c > b
        /\ c <= Len(line) /\ line[c] = "APEX_CODE,"

RECURSIVE join(_)
\* Array.prototype.join('\n').
join(lines) ==
    IF Len(lines) = 0 THEN <<>>
    ELSE IF Len(lines) = 1 THEN lines[1]
    ELSE lines[1] \o <<"\n">> \o join(Tail(lines))

\* new ApexLogSplitter(onLog).  delivered is the record of the calls the
\* callbacks have received, in order.
ApexLogSplitter(onLog) ==
    [currentLog |-> <<>>, numLogs |-> 0, onLogCallback |-> onLog,
     hasFoundFirstLog |-> FALSE, delivered |-> <<>>]

\* if (this.onLogCallback) this.onLogCallback(logData)
invokeCallback(T, logData) ==
    IF IsSome(T.onLogCallback)
    THEN [T EXCEPT !.delivered = Append(@, [log |-> logData.log,
                                            number |-> logData.number,
                                            callback |-> T.onLogCallback[1]])]
    ELSE T

\* processLine with the line appended to the buffer whether or not a header
\* has been seen.
processLineKeepPrefix(T, line) ==
    IF isLogStart(line)
    THEN LET T1 == [T EXCEPT !.numLogs = @ + 1]
             T2 == IF T1.hasFoundFirstLog /\ Len(T1.currentLog) > 0
                   THEN invokeCallback(T1, [log |-> join(T1.currentLog),
                                            number |-> T1.numLogs])
                   ELSE T1
         IN  [T2 EXCEPT !.currentLog = <<line>>, !.hasFoundFirstLog = TRUE]
    ELSE [T EXCEPT !.currentLog = Append(@, line)]

\* processLine with the header line appended to the buffer it ends instead
\* of starting a new one.
processLineNoCut(T, line) ==
    IF isLogStart(line)
    THEN [T EXCEPT !.numLogs = @ + 1, !.currentLog = Append(@, line),
                   !.hasFoundFirstLog = TRUE]
    ELSE IF T.hasFoundFirstLog
    THEN [T EXCEPT !.currentLog = Append(@, line)]
    ELSE T

\* processLine with the new buffer started empty, the header line left out.
processLineDropHeader(T, line) ==
    IF isLogStart(line)
    THEN LET T1 == [T EXCEPT !.numLogs = @ + 1]
             T2 == IF T1.hasFoundFirstLog /\ Len(T1.currentLog) > 0
                   THEN invokeCallback(T1, [log |-> join(T1.currentLog),
                                            number |-> T1.numLogs])
                   ELSE T1
         IN  [T2 EXCEPT !.currentLog = <<>>, !.hasFoundFirstLog = TRUE]
    ELSE IF T.hasFoundFirstLog
    THEN [T EXCEPT !.currentLog = Append(@, line)]
    ELSE T

\* processLine that starts the new buffer before it emits, so that the
\* callback gets the buffer of the boundary line.
processLineCutBeforeEmit(T, line) ==
    IF isLogStart(line)
    THEN LET T1 == [T EXCEPT !.numLogs = @ + 1]
             T2 == [T1 EXCEPT !.currentLog = <<line>>, !.hasFoundFirstLog = TRUE]
         IN  IF T1.hasFoundFirstLog /\ Len(T1.currentLog) > 0
             THEN invokeCallback(T2, [log |-> join(T2.currentLog),
                                      number |-> T2.numLogs])
             ELSE T2
    ELSE IF T.hasFoundFirstLog
    THEN [T EXCEPT !.currentLog = Append(@, line)]
    ELSE T

\* processLine with a line that is no boundary put right after the header
\* line of the buffer, before the lines that came earlier.
processLineNewestFirst(T, line) ==
    IF isLogStart(line)
    THEN LET T1 == [T EXCEPT !.numLogs = @ + 1]
             T2 == IF T1.hasFoundFirstLog /\ Len(T1.currentLog) > 0
                   THEN invokeCallback(T1, [log |-> join(T1.currentLog),
                                            number |-> T1.numLogs])
                   ELSE T1
         IN  [T2 EXCEPT !.currentLog = <<line>>, !.hasFoundFirstLog = TRUE]
    ELSE IF T.hasFoundFirstLog
    THEN [T EXCEPT !.currentLog = <<@[1], line>> \o Tail(@)]
    ELSE T

processLine(T, line) ==
    IF isLogStart(line)
    THEN LET T1 == [T EXCEPT !.numLogs = @ + 1]
             T2 == IF T1.hasFoundFirstLog /\ Len(T1.currentLog) > 0
                   THEN invokeCallback(T1, [log |-> join(T1.currentLog),
                                            number |-> T1.numLogs])
                   ELSE T1
         IN  [T2 EXCEPT !.currentLog = <<line>>, !.hasFoundFirstLog = TRUE]
    ELSE IF T.hasFoundFirstLog
    THEN [T EXCEPT !.currentLog = Append(@, line)]
    ELSE T

\* finalize that emits whatever the buffer holds, an empty buffer included.
finalizeAlways(T) ==
    invokeCallback(T, [log |-> join(T.currentLog), number |-> T.numLogs])

finalize(T) ==
    IF Len(T.currentLog) > 0
    THEN invokeCallback(T, [log |-> join(T.currentLog), number |-> T.numLogs])
    ELSE T

setOnLogCallback(T, callback) == [T EXCEPT !.onLogCallback = Some(callback)]

\* ApexLogSplitter.reset with the header counter cleared as well.
resetSplitterCounter(T) ==
    [T EXCEPT !.currentLog = <<>>, !.hasFoundFirstLog = FALSE, !.numLogs = 0]

\* ApexLogSplitter.reset.
resetSplitter(T) == [T EXCEPT !.currentLog = <<>>, !.hasFoundFirstLog = FALSE]

\* A splitter as constructed, with the history of its use: the lines fed to
\* it, the operation called last and the object right before that call, how
\* often finalize and reset were called, and the stream position and the
\* number of delivered logs at the last reset.
SplitterStart(onLog) ==
    [obj |-> ApexLogSplitter(onLog), fed |-> <<>>, op |-> "new",
     before |-> ApexLogSplitter(onLog), finalized |-> 0, resets |-> 0,
     resetAt |-> 0, deliveredAtReset |-> 0, constructedWith |-> onLog]

-----------------------------------------------------------------------------
(* parse(): reset, then parseLine on each event record, then buildOutput   *)

Line(fields, timing, type, arg, rows) ==
    [fields |-> fields, timing |-> timing, type |-> type, arg |-> arg, rows |-> rows]

NoLine == Line(0, None, "", "", None)

\* The parser fields after reset() and handleDebugLevels on the first line.
Started(firstLine) == handleDebugLevels(reset, firstLine)

\* The state parse() is in after reset() and the header line.
InitParser ==
    /\ logLevels = Started(HeaderWithLevels).logLevels
    /\ run = [parses |-> 1, header |-> HeaderWithLevels, log |-> <<>>,
              left |-> [user |-> None, pc |-> "new"]]
    /\ nodes = reset.nodes
    /\ rootNode = reset.rootNode
    /\ currentNode = reset.currentNode
    /\ nodeStack = reset.nodeStack
    /\ counter = reset.counter
    /\ user = reset.user
    /\ pc = "parsing"
    /\ nEvents = 0
    /\ ev = NoLine
    /\ pre = Started(HeaderWithLevels)
    /\ out = None
    /\ pending = <<>>

\* One parse of a parser the command line interface has constructed, next to
\* the splitter it constructs for standard input.
Init == InitParser /\ splitter = SplitterStart(Some("onLog")) /\ call = NoCall

\* One iteration of the loop of parse(): parseLine on the next record.  A
\* TypeError raised by a handler ends parse() without a result.
StepCore(line) ==
    /\ pc = "parsing"
    /\ LET R == parseLine(This, line)
       IN  /\ nodes' = R.nodes
           /\ rootNode' = R.rootNode
           /\ currentNode' = R.currentNode
           /\ nodeStack' = R.nodeStack
           /\ counter' = R.counter
           /\ user' = R.user
           /\ logLevels' = R.logLevels
           /\ pc' = IF R.threw THEN "threw" ELSE "parsing"
    /\ nEvents' = nEvents + 1
    /\ ev' = line
    /\ pre' = This
    /\ out' = out
    /\ splitter' = splitter
    /\ call' = call

\* The same where the history kept of the instance's parses stays as it is.
Step(line) == StepCore(line) /\ run' = run

\* The input ends: parse() returns buildOutput().
Finish ==
    /\ pc = "parsing"
    /\ pc' = "done"
    /\ out' = Some(buildOutput(This))
    /\ UNCHANGED <<nodes, rootNode, currentNode, nodeStack, counter, user,
                   nEvents, ev, pre, pending, splitter, call, logLevels, run>>

-----------------------------------------------------------------------------
(* The general input generator: any sequence of at most MaxEvents records, *)
(* each with a timing field that is malformed (timestamp 0) or carries the *)
(* clock value of its position.                                            *)

Timings == {None, Some(TimeOf(nEvents + 1))}

Feed(timing, type, arg, rows) ==
    /\ nEvents < MaxEvents
    /\ Step(Line(3, timing, type, arg, rows))
    /\ UNCHANGED pending

FeedFields(fields, timing, type, arg, rows) ==
    /\ nEvents < MaxEvents
    /\ Step(Line(fields, timing, type, arg, rows))
    /\ UNCHANGED pending

CodeUnitStarted == \E timing \in Timings : Feed(timing, "CODE_UNIT_STARTED", "Foo", None)
CodeUnitFinished == \E timing \in Timings : Feed(timing, "CODE_UNIT_FINISHED", "Foo", None)
MethodEntry == \E timing \in Timings : Feed(timing, "METHOD_ENTRY", "Foo.bar()", None)
MethodExit == \E timing \in Timings : Feed(timing, "METHOD_EXIT", "Foo.bar()", None)
SoqlExecuteBegin == \E timing \in Timings : Feed(timing, "SOQL_EXECUTE_BEGIN", "SELECT Id FROM Account", None)
SoqlExecuteEnd == \E timing \in Timings : Feed(timing, "SOQL_EXECUTE_END", "Rows:5", Some(5))
ExecutionStarted == \E timing \in Timings : Feed(timing, "EXECUTION_STARTED", "", None)
ExecutionFinished == \E timing \in Timings : Feed(timing, "EXECUTION_FINISHED", "", None)
EnteringManagedPkg ==
    \E timing \in Timings, name \in PkgNames :
        Feed(timing, "ENTERING_MANAGED_PKG", name, None)
FatalError == \E timing \in Timings : Feed(timing, "FATAL_ERROR", "System.NullPointerException", None)
LimitUsageForNs == \E timing \in Timings : Feed(timing, "LIMIT_USAGE_FOR_NS", "(default)", None)
UserInfo ==
    \E timing \in Timings, fields \in {3, 5} :
        FeedFields(fields, timing, "USER_INFO", "user@example.com", None)
\* DML_BEGIN with two or three payload fields.
DmlBegin ==
    \E timing \in Timings, fields \in {4, 5} :
        FeedFields(fields, timing, "DML_BEGIN", "Rows:5", Some(5))
\* A record that ends after its event tag.
NoPayload ==
    \E timing \in Timings,
       type \in {"DML_BEGIN", "METHOD_ENTRY", "LIMIT_USAGE_FOR_NS", "FATAL_ERROR"} :
        FeedFields(2, timing, type, "", None)
UnknownEvent == \E timing \in Timings : Feed(timing, "HEAP_ALLOCATE", "Bytes:3", None)
\* A line with fewer than two '|'-separated parts.
ShortLine ==
    /\ nEvents < MaxEvents
    /\ Step(Line(1, None, "", "", None))
    /\ UNCHANGED pending

Next ==
    \/ CodeUnitStarted
    \/ CodeUnitFinished
    \/ MethodEntry
    \/ MethodExit
    \/ SoqlExecuteBegin
    \/ SoqlExecuteEnd
    \/ ExecutionStarted
    \/ ExecutionFinished
    \/ EnteringManagedPkg
    \/ FatalError
    \/ LimitUsageForNs
    \/ UserInfo
    \/ DmlBegin
    \/ NoPayload
    \/ UnknownEvent
    \/ ShortLine
    \/ Finish

Spec == Init /\ [][Next]_vars

-----------------------------------------------------------------------------
(* The well-nested input generator: begin records and, for the innermost   *)
(* begin not yet ended, its end record; timestamps never decrease.  The    *)
(* input is complete when every begin has been ended.                      *)

PairedOpening == OpeningEvents \ {"ENTERING_MANAGED_PKG"}

\* The end tag of each begin tag of the log format.
endOfBegin ==
    [t \in PairedOpening |->
        CHOOSE e \in ClosingEvents : mapTypeByTypeExit[e] = typeOfOpening[t]]

LaterTimes == {t \in NestedTimes : t >= extractTimestamp(ev.timing)}

\* Every record so far is a begin or an end, and pending holds the begins
\* without an end: the number of begins fed so far.
nBegins == (nEvents + Len(pending)) \div 2

NestedBegin ==
    /\ nBegins < MaxPairs
    /\ \E tag \in PairedOpening, t \in LaterTimes :
           /\ Step(Line(5, Some(t), tag, "Foo", Some(5)))
           /\ pending' = Append(pending, tag)

NestedEnd ==
    /\ pending # <<>>
    /\ \E t \in LaterTimes :
           /\ Step(Line(5, Some(t), endOfBegin[Last(pending)], "Foo", Some(5)))
           /\ pending' = Front(pending)

NestedFinish == pending = <<>> /\ Finish

NextNested == NestedBegin \/ NestedEnd \/ NestedFinish

SpecNested == Init /\ [][NextNested]_vars

-----------------------------------------------------------------------------
(* The splitter fed from a line reader, as processStdin does: a splitter   *)
(* is constructed with or without a callback, lines arrive one by one, the *)
(* stream's end calls finalize; reset and setOnLogCallback are the other   *)
(* public operations.                                                      *)

InitSplitter ==
    /\ InitParser
    /\ call = NoCall
    /\ splitter \in {SplitterStart(None), SplitterStart(Some("onLog"))}

ProcessLine ==
    /\ Len(splitter.fed) < MaxLines
    /\ \E line \in SampleLines :
           /\ splitter' = [splitter EXCEPT !.obj = processLine(splitter.obj, line),
                                           !.op = "processLine",
                                           !.before = splitter.obj,
                                           !.fed = Append(@, line)]
           /\ UNCHANGED <<nodes, rootNode, currentNode, nodeStack, counter, user,
                          pc, nEvents, ev, pre, out, pending, call, logLevels, run>>

Finalize ==
    /\ splitter.finalized < MaxFinalize
    /\ splitter' = [splitter EXCEPT !.obj = finalize(splitter.obj),
                                    !.op = "finalize",
                                    !.before = splitter.obj,
                                    !.finalized = @ + 1]
    /\ UNCHANGED <<nodes, rootNode, currentNode, nodeStack, counter, user,
                   pc, nEvents, ev, pre, out, pending, call, logLevels, run>>

ResetSplitter ==
    /\ splitter.resets < MaxResets
    /\ splitter' = [splitter EXCEPT !.obj = resetSplitter(splitter.obj),
                                    !.op = "reset",
                                    !.before = splitter.obj,
                                    !.resets = @ + 1,
                                    !.resetAt = Len(splitter.fed),
                                    !.deliveredAtReset = Len(splitter.obj.delivered)]
    /\ UNCHANGED <<nodes, rootNode, currentNode, nodeStack, counter, user,
                   pc, nEvents, ev, pre, out, pending, call, logLevels, run>>

SetOnLogCallback ==
    /\ splitter.obj.onLogCallback # Some("onLog2")
    /\ splitter' = [splitter EXCEPT !.obj = setOnLogCallback(splitter.obj, "onLog2"),
                                    !.op = "setOnLogCallback",
                                    !.before = splitter.obj]
    /\ UNCHANGED <<nodes, rootNode, currentNode, nodeStack, counter, user,
                   pc, nEvents, ev, pre, out, pending, call, logLevels, run>>

NextSplitter == ProcessLine \/ Finalize \/ ResetSplitter \/ SetOnLogCallback

SpecSplitter == InitSplitter /\ [][NextSplitter]_vars

-----------------------------------------------------------------------------
(* Calls of the ParserUtils functions: the argument is drawn when the call *)
(* is made, the step computes the result.                                  *)

LimitBlocks ==
    {None} \cup
    {Some(b) : b \in UNION {[1..n -> UsageLines] : n \in 0..MaxBlockLines}}

InitUtils ==
    /\ InitParser
    /\ splitter = SplitterStart(Some("onLog"))
    /\ call \in {[fn |-> "parseGovernorLimits", arg |-> b, result |-> None] :
                    b \in LimitBlocks}

ParseGovernorLimits ==
    /\ call.fn = "parseGovernorLimits"
    /\ call.result = None
    /\ call' = [call EXCEPT !.result = Some(parseGovernorLimits(call.arg))]
    /\ UNCHANGED <<nodes, rootNode, currentNode, nodeStack, counter, user, pc,
                   nEvents, ev, pre, out, pending, splitter, logLevels, run>>

NextUtils == ParseGovernorLimits

SpecUtils == InitUtils /\ [][NextUtils]_vars

-----------------------------------------------------------------------------
(* One parser instance parsing one log after another, as processFiles and   *)
(* the callback of the standard input mode use it.  run counts the calls   *)
(* of parse() and keeps the header and the records of the current log, and *)
(* of the parse before it the user it found and how it ended.              *)

MaxParses == 2

\* The kinds of record of the logs: fields, tag, last payload field, rows.
ReuseRecords ==
    {[fields |-> 5, type |-> "USER_INFO", arg |-> "user@example.com", rows |-> None],
     [fields |-> 3, type |-> "CODE_UNIT_STARTED", arg |-> "Foo", rows |-> None],
     [fields |-> 3, type |-> "METHOD_ENTRY", arg |-> "Foo.bar()", rows |-> None],
     [fields |-> 3, type |-> "METHOD_EXIT", arg |-> "Foo.bar()", rows |-> None],
     [fields |-> 3, type |-> "FATAL_ERROR", arg |-> "System.NullPointerException", rows |-> None],
     [fields |-> 2, type |-> "METHOD_ENTRY", arg |-> "", rows |-> None]}

\* The loop of parse() takes the next record of the log.
ReuseRecord ==
    /\ nEvents < MaxEvents
    /\ \E r \in ReuseRecords, timing \in Timings :
          LET line == Line(r.fields, timing, r.type, r.arg, r.rows)
          IN  /\ StepCore(line)
              /\ run' = [run EXCEPT !.log = Append(@, line)]
    /\ UNCHANGED pending

\* parse() called again with reset() leaving the user of the parse before.
ParseAgainKeepingUser ==
    /\ pc \in {"done", "threw"}
    /\ run.parses < MaxParses
    /\ \E firstLine \in Headers :
          LET S == [Started(firstLine) EXCEPT !.user = user]
          IN  /\ nodes' = S.nodes
              /\ rootNode' = S.rootNode
              /\ currentNode' = S.currentNode
              /\ nodeStack' = S.nodeStack
              /\ counter' = S.counter
              /\ user' = S.user
              /\ logLevels' = S.logLevels
              /\ pre' = S
              /\ run' = [parses |-> run.parses + 1, header |-> firstLine, log |-> <<>>,
                         left |-> [user |-> user, pc |-> pc]]
    /\ pc' = "parsing"
    /\ nEvents' = 0
    /\ ev' = NoLine
    /\ out' = None
    /\ UNCHANGED <<pending, splitter, call>>

\* parse() is called again on the instance, after it returned or raised:
\* reset(), then handleDebugLevels on the first line of the new log.
ParseAgain ==
    /\ pc \in {"done", "threw"}
    /\ run.parses < MaxParses
    /\ \E firstLine \in Headers :
          LET S == Started(firstLine)
          IN  /\ nodes' = S.nodes
              /\ rootNode' = S.rootNode
              /\ currentNode' = S.currentNode
              /\ nodeStack' = S.nodeStack
              /\ counter' = S.counter
              /\ user' = S.user
              /\ logLevels' = S.logLevels
              /\ pre' = S
              /\ run' = [parses |-> run.parses + 1, header |-> firstLine, log |-> <<>>,
                         left |-> [user |-> user, pc |-> pc]]
    /\ pc' = "parsing"
    /\ nEvents' = 0
    /\ ev' = NoLine
    /\ out' = None
    /\ UNCHANGED <<pending, splitter, call>>

NextReuse == ReuseRecord \/ Finish \/ ParseAgain

SpecReuse == Init /\ [][NextReuse]_vars

-----------------------------------------------------------------------------
(* cli.ts: the file mode of the command line interface                     *)
(*                                                                         *)
(* A file named on the command line is modelled by what the calls made on  *)
(* it answer: its extension, what fs.stat finds, whether fs.access         *)
(* succeeds, and whether readFile and parser.parse return without raising. *)

MaxFiles == 2

Extensions == {".log", ".txt"}
StatResults == {"file", "directory", "missing"}

FileArgs == [extname : Extensions, stat : StatResults, access : BOOLEAN, parses : BOOLEAN]

\* checkFileExists: fs.access succeeds.
checkFileExists(file) == file.access

\* verifyLogFile: a '.log' name that fs.stat finds to be a file and that is
\* accessible.
verifyLogFile(file) ==
    IF file.extname # ".log" THEN FALSE
    ELSE IF file.stat # "file" THEN FALSE
    ELSE checkFileExists(file)

\* parseFile: success unless readFile or parse raises.
parseFile(file) == [success |-> file.parses]

\* The positions of a list, in order.
Indices(files) == [i \in 1..Len(files) |-> i]

\* processFiles with hasErrors set for every file that is skipped, whatever
\* its extension.
processFilesCountingSkipped(files) ==
    LET existingFiles == SelectSeq(Indices(files), LAMBDA i : verifyLogFile(files[i]))
        skipped == \E i \in 1..Len(files) : ~verifyLogFile(files[i])
        printed == SelectSeq(existingFiles, LAMBDA i : parseFile(files[i]).success)
        failed == \E k \in 1..Len(existingFiles) : ~parseFile(files[existingFiles[k]]).success
        successfulParses == Len(printed)
        hasErrors == skipped \/ failed
    IN  IF Len(existingFiles) = 0 /\ Len(files) > 0
        THEN [exitCode |-> 1, printed |-> <<>>]
        ELSE IF successfulParses = 0 /\ Len(files) > 0
        THEN [exitCode |-> 1, printed |-> printed]
        ELSE IF hasErrors THEN [exitCode |-> 2, printed |-> printed]
        ELSE [exitCode |-> 0, printed |-> printed]

\* processFiles: the positions of the files whose ParsedLog was printed, and
\* the code the process exits with.
processFiles(files) ==
    LET existingFiles == SelectSeq(Indices(files), LAMBDA i : verifyLogFile(files[i]))
        skipped == \E i \in 1..Len(files) :
                      ~verifyLogFile(files[i]) /\ files[i].extname = ".log"
        printed == SelectSeq(existingFiles, LAMBDA i : parseFile(files[i]).success)
        failed == \E k \in 1..Len(existingFiles) : ~parseFile(files[existingFiles[k]]).success
        successfulParses == Len(printed)
        hasErrors == skipped \/ failed
    IN  IF Len(existingFiles) = 0 /\ Len(files) > 0
        THEN [exitCode |-> 1, printed |-> <<>>]
        ELSE IF successfulParses = 0 /\ Len(files) > 0
        THEN [exitCode |-> 1, printed |-> printed]
        ELSE IF hasErrors THEN [exitCode |-> 2, printed |-> printed]
        ELSE [exitCode |-> 0, printed |-> printed]

\* main() with -f: parseArgs returned a non-empty list of at most MaxFiles
\* names.
InitCli ==
    /\ InitParser
    /\ splitter = SplitterStart(Some("onLog"))
    /\ call \in {[fn |-> "processFiles", arg |-> files, result |-> None] :
                    files \in UNION {[1..n -> FileArgs] : n \in 1..MaxFiles}}

ProcessFiles ==
    /\ call.fn = "processFiles"
    /\ call.result = None
    /\ call' = [call EXCEPT !.result = Some(processFiles(call.arg))]
    /\ UNCHANGED <<nodes, rootNode, currentNode, nodeStack, counter, user, pc,
                   nEvents, ev, pre, out, pending, splitter, logLevels, run>>

NextCli == ProcessFiles

SpecCli == InitCli /\ [][NextCli]_vars

-----------------------------------------------------------------------------
(* Vocabulary of the properties                                            *)

StackSet(stack) == {stack[i] : i \in DOMAIN stack}

\* The timestamp of the record handled last.
EventTime == extractTimestamp(ev.timing)

\* (timeEnd - timeStart) nanoseconds in milliseconds, rounded half up to 3
\* decimals, in thousandths of a millisecond.
ExpectedDurationMs(timeStart, timeEnd) == ((timeEnd - timeStart) + 500) \div 1000

\* The record handled last had at least two fields and was dispatched.
Dispatched == nEvents > 0 /\ ev.fields >= 2

-----------------------------------------------------------------------------
(* C1 - C3: parse never raises; the stack keeps ROOT at its bottom          *)

\* The record has every payload field its handler reads.
CompletePayload(line) ==
    /\ line.type \in {"DML_BEGIN", "USER_INFO"} => payloadLength(line) >= 3
    /\ line.type \in {"METHOD_ENTRY", "LIMIT_USAGE_FOR_NS", "FATAL_ERROR"}
          => payloadLength(line) >= 1

\* C1: parse raises no exception, whatever event records with a complete
\* payload it is given: no such record makes a handler raise.
C1_ParseNeverThrows == (Dispatched /\ CompletePayload(ev)) => pc # "threw"

\* C2: after any prefix of the records nodeStack is non-empty, its bottom
\* element is the ROOT node and currentNode is its top element.
C2_StackInvariant ==
    /\ Len(nodeStack) > 0
    /\ nodes[nodeStack[1]].type = "ROOT"
    /\ currentNode = Last(nodeStack)

\* C3: there is exactly one ROOT node, created first (id 1); it is never
\* popped from the stack and never gets a timeEnd or a durationMs.
C3_RootNeverClosed ==
    /\ Cardinality({i \in DOMAIN nodes : nodes[i].type = "ROOT"}) = 1
    /\ nodes[1].type = "ROOT" /\ nodes[1].id = 1 /\ rootNode = 1
    /\ rootNode \in StackSet(nodeStack)
    /\ nodes[rootNode].timeEnd = None
    /\ nodes[rootNode].durationMs = None

-----------------------------------------------------------------------------
(* C4: unwind recovery                                                     *)

\* A closing record arrived while node A of the record's variant was open
\* with node B of another variant open as its child on top of the stack.
UnwindCase ==
    /\ Dispatched
    /\ ev.type \in ClosingEvents
    /\ Len(pre.nodeStack) >= 3
    /\ LET a == pre.nodeStack[Len(pre.nodeStack) - 1]
           b == Last(pre.nodeStack)
       IN  /\ pre.nodes[a].type = mapTypeByTypeExit[ev.type]
           /\ pre.nodes[b].type # pre.nodes[a].type

\* C4: in the unwind case B and A are both popped and get timeEnd = t, the
\* record's timestamp, B's durationMs is computed from B's own timeStart, and
\* the current node afterwards is A's parent.
C4_UnwindRecovery ==
    UnwindCase =>
        LET k == Len(pre.nodeStack)
            a == pre.nodeStack[k - 1]
            b == pre.nodeStack[k]
            t == EventTime
        IN  /\ nodeStack = SubSeq(pre.nodeStack, 1, k - 2)
            /\ currentNode = pre.nodeStack[k - 2]
            /\ nodes[b].timeEnd = Some(t)
            /\ nodes[a].timeEnd = Some(t)
            /\ nodes[b].durationMs = Some(ExpectedDurationMs(pre.nodes[b].timeStart[1], t))

\* What holds of the unwind case for every timestamp: both nodes are popped
\* and A's parent becomes current; and C4 in full when neither the record's
\* timestamp nor B's timeStart is 0.
C4_UnwindPopsBoth ==
    UnwindCase =>
        LET k == Len(pre.nodeStack)
        IN  /\ nodeStack = SubSeq(pre.nodeStack, 1, k - 2)
            /\ currentNode = pre.nodeStack[k - 2]

C4_UnwindRecoveryNonZero ==
    (UnwindCase /\ EventTime # 0 /\ pre.nodes[Last(pre.nodeStack)].timeStart # Some(0))
        => C4_UnwindRecovery

-----------------------------------------------------------------------------
(* C5: FATAL_ERROR                                                         *)

\* A FATAL_ERROR record was dispatched and its handler returned.
FatalCase == Dispatched /\ ev.type = "FATAL_ERROR" /\ pc # "threw"

\* The stack when the record is dispatched: an open MANAGED_PKG on top has
\* been closed by then.
DispatchStack ==
    IF pre.nodeStack # <<>> /\ pre.nodes[Last(pre.nodeStack)].type = "MANAGED_PKG"
    THEN Front(pre.nodeStack)
    ELSE pre.nodeStack

\* Position in the stack of the nearest enclosing CODE_UNIT, of ROOT when no
\* CODE_UNIT is open.
Enclosing(stack) ==
    CHOOSE i \in DOMAIN stack :
        /\ pre.nodes[stack[i]].type \in {"CODE_UNIT", "ROOT"}
        /\ \A j \in DOMAIN stack : j > i => pre.nodes[stack[j]].type \notin {"CODE_UNIT", "ROOT"}

\* The EXCEPTION leaf of the FATAL_ERROR handled last: the newest node, a
\* childless child of the node that was current at dispatch.
ExceptionLeafCreated ==
    LET x == Len(nodes)
        cur == Last(DispatchStack)
    IN  /\ Len(nodes) = Len(pre.nodes) + 1
        /\ nodes[x].type = "EXCEPTION"
        /\ nodes[x].children = <<>>
        /\ nodes[x].parentId = Some(nodes[cur].id)
        /\ nodes[cur].children = Append(pre.nodes[cur].children, x)
        /\ x \notin StackSet(nodeStack)

-----------------------------------------------------------------------------
(* C6: the implicit close of a managed package                             *)

\* A record with at least two fields arrived while a MANAGED_PKG was current.
PkgCase ==
    /\ Dispatched
    /\ pre.currentNode # Null
    /\ pre.nodes[pre.currentNode].type = "MANAGED_PKG"

\* That record is an ENTERING_MANAGED_PKG for the package that is current.
SamePkg ==
    /\ ev.type = "ENTERING_MANAGED_PKG"
    /\ pre.nodes[pre.currentNode].name = Some(ev.arg)

\* The stack effect of the implicit close: the MANAGED_PKG is popped before
\* the record is dispatched, so no node the record creates is its child.
PkgPopped ==
    /\ pre.currentNode \notin StackSet(nodeStack)
    /\ nodes[pre.currentNode].children = <<>>

\* C6: a record that is not an entry into the same package pops the current
\* MANAGED_PKG and finalizes it with the record's timestamp before the record
\* is dispatched; an entry into the same package creates no node, consumes no
\* id and leaves the stack unchanged.
C6_ManagedPkgImplicitClose ==
    /\ (PkgCase /\ ~SamePkg) =>
           /\ PkgPopped
           /\ nodes[pre.currentNode].timeEnd = Some(EventTime)
           /\ IsSome(nodes[pre.currentNode].durationMs)
    /\ (PkgCase /\ SamePkg) =>
           /\ nodes = pre.nodes
           /\ counter = pre.counter
           /\ nodeStack = pre.nodeStack

\* What holds of C6 for every timestamp (the pop, and the same-package case),
\* and C6 in full for records with a non-zero timestamp.
C6_ManagedPkgPopped ==
    /\ (PkgCase /\ ~SamePkg) => PkgPopped
    /\ (PkgCase /\ SamePkg) =>
           nodes = pre.nodes /\ counter = pre.counter /\ nodeStack = pre.nodeStack

C6_ManagedPkgImplicitCloseNonZero ==
    (PkgCase /\ EventTime # 0) => C6_ManagedPkgImplicitClose

-----------------------------------------------------------------------------
(* C7: identifiers                                                         *)

\* Node i is in the tree: it is ROOT or a child of some node.
InTree(i) ==
    \/ i = rootNode
    \/ \E p \in DOMAIN nodes : \E c \in DOMAIN nodes[p].children : nodes[p].children[c] = i

\* C7: the ids of the N nodes created are 1..N in creation order, ROOT has
\* id 1, and every id generated belongs to a node that is in the tree.
C7_MonotonicIds ==
    /\ \A i \in DOMAIN nodes : nodes[i].id = i /\ InTree(i)
    /\ counter = Len(nodes)

\* What holds of C7 in every state: the ids of the nodes are 1..N in creation
\* order and every node is in the tree.
C7_NodeIdsAreSequential ==
    \A i \in DOMAIN nodes : nodes[i].id = i /\ InTree(i)

-----------------------------------------------------------------------------
(* C8: flatten order                                                       *)

\* C8: the events list of the result holds every non-ROOT node exactly once,
\* in the order the nodes were opened (increasing id).
C8_FlattenOrder ==
    pc = "done" =>
        LET events == out[1].events
        IN  /\ Len(events) = Len(nodes) - 1
            /\ \A k \in DOMAIN events :
                   /\ events[k].id = nodes[k + 1].id
                   /\ events[k].type = nodes[k + 1].type
                   /\ events[k].type # "ROOT"

\* A result whose tree has a node x with a child z that was closed before a
\* later node y was opened outside z: opening order x, z, y.
C8_Witness ==
    /\ pc = "done"
    /\ \E x, z, y \in DOMAIN nodes :
           /\ x < z /\ z < y
           /\ nodes[z].parentId = Some(nodes[x].id)
           /\ nodes[y].parentId # Some(nodes[z].id)
           /\ IsSome(nodes[z].timeEnd)
           /\ out[1].events[y - 1].id = nodes[y].id

-----------------------------------------------------------------------------
(* C9: stack balance (checked under SpecNested)                            *)

\* C9: when the input is made of properly nested begin/end pairs, at the end
\* of the parse only ROOT is on the stack and every node with children (ROOT
\* is the untimed container and is not meant) has a durationMs.
C9_StackBalance ==
    pc = "done" =>
        /\ nodeStack = <<rootNode>>
        /\ \A i \in DOMAIN nodes :
               (nodes[i].type # "ROOT" /\ nodes[i].children # <<>>)
                   => IsSome(nodes[i].durationMs)

\* What holds of C9 for every timestamp: no node but ROOT is left open.
C9_NoStrayOpenNodes == pc = "done" => nodeStack = <<rootNode>>

-----------------------------------------------------------------------------
(* C10: the duration of a closed node                                      *)

\* C10: a node closed with timestamp timeEnd has durationMs equal to
\* (timeEnd - timeStart) in milliseconds rounded to 3 decimals, for every
\* timeStart, 0 included.
C10_DurationFormula ==
    \A i \in DOMAIN nodes :
        (nodes[i].type # "ROOT" /\ IsSome(nodes[i].timeEnd))
            => nodes[i].durationMs
                  = Some(ExpectedDurationMs(nodes[i].timeStart[1], nodes[i].timeEnd[1]))

\* What holds of C10: the formula for every node whose timeStart is not 0.
C10_DurationFormulaNonZeroStart ==
    \A i \in DOMAIN nodes :
        (nodes[i].type # "ROOT" /\ IsSome(nodes[i].timeEnd) /\ nodes[i].timeStart # Some(0))
            => nodes[i].durationMs
                  = Some(ExpectedDurationMs(nodes[i].timeStart[1], nodes[i].timeEnd[1]))

-----------------------------------------------------------------------------
(* C11: the total duration of the result                                   *)

\* The nodes directly under ROOT, found by their parentId.
TopLevel == {i \in DOMAIN nodes : nodes[i].parentId = Some(nodes[rootNode].id)}

\* The durationMs a node counts for in a sum: nothing while it has none.
DurationOf(i) == IF IsSome(nodes[i].durationMs) THEN nodes[i].durationMs[1] ELSE 0

RECURSIVE SumOfDurations(_)
SumOfDurations(set) ==
    IF set = {} THEN 0
    ELSE LET i == CHOOSE x \in set : TRUE
         IN  DurationOf(i) + SumOfDurations(set \ {i})

\* C11: meta.durationMs of the result is the sum of the durationMs of the
\* direct children of ROOT; when ROOT has one child and it is an EXECUTION
\* node, meta.durationMs is that node's durationMs.
C11_TotalDuration ==
    pc = "done" =>
        /\ out[1].durationMs = SumOfDurations(TopLevel)
        /\ \A i \in TopLevel :
               (TopLevel = {i} /\ nodes[i].type = "EXECUTION")
                   => out[1].durationMs = DurationOf(i)

\* A result with one top-level EXECUTION node, closed with a non-zero
\* duration, that has a child with a non-zero duration of its own.
C11_Witness ==
    /\ pc = "done"
    /\ \E i \in TopLevel :
           /\ TopLevel = {i}
           /\ nodes[i].type = "EXECUTION"
           /\ DurationOf(i) > 0
           /\ out[1].durationMs = DurationOf(i)
           /\ \E j \in DOMAIN nodes :
                  nodes[j].parentId = Some(nodes[i].id) /\ DurationOf(j) > 0

-----------------------------------------------------------------------------
(* C12 - C17: the splitter (checked under SpecSplitter)                    *)

Fed == splitter.fed
Delivered == splitter.obj.delivered

RECURSIVE BoundaryPositions(_, _)
\* The positions from i on of the boundary lines of a stream, ascending.
BoundaryPositions(lines, i) ==
    IF i > Len(lines) THEN <<>>
    ELSE (IF isLogStart(lines[i]) THEN <<i>> ELSE <<>>)
         \o BoundaryPositions(lines, i + 1)

\* The k-th boundary line of a stream and the lines after it, up to and
\* excluding the next boundary line.
Segment(lines, k) ==
    LET b == BoundaryPositions(lines, 1)
    IN  SubSeq(lines, b[k], IF k < Len(b) THEN b[k + 1] - 1 ELSE Len(lines))

RECURSIVE LinesOf(_)
\* The lines of a text: the runs of tokens between its "\n" tokens.
LinesOf(text) ==
    IF \A i \in DOMAIN text : text[i] # "\n" THEN <<text>>
    ELSE LET i == CHOOSE j \in DOMAIN text :
                      text[j] = "\n" /\ \A h \in 1..(j - 1) : text[h] # "\n"
         IN  <<SubSeq(text, 1, i - 1)>> \o LinesOf(SubSeq(text, i + 1, Len(text)))

RECURSIVE LinesDelivered(_, _)
\* The lines of the logs delivered from the k-th on, in order.
LinesDelivered(d, k) ==
    IF k > Len(d) THEN <<>> ELSE LinesOf(d[k].log) \o LinesDelivered(d, k + 1)

\* The splitter has had a callback since it was constructed and was never
\* reset: one stream, every emitted log delivered.
OneStream == splitter.resets = 0 /\ IsSome(splitter.constructedWith)

\* The whole stream was fed and finalize() was then called, once.
StreamClosed ==
    OneStream /\ splitter.op = "finalize" /\ splitter.finalized = 1

\* C12: when a stream with N boundary lines has been fed and finalize() was
\* called once, the callback was invoked N times, the k-th log is the k-th
\* boundary line followed by the lines up to the next boundary line, and a
\* log holds a boundary line as its first line only.
C12_SplitterGuarantee ==
    StreamClosed =>
        /\ Len(Delivered) = Len(BoundaryPositions(Fed, 1))
        /\ \A k \in DOMAIN Delivered :
               /\ LinesOf(Delivered[k].log) = Segment(Fed, k)
               /\ isLogStart(LinesOf(Delivered[k].log)[1])
               /\ \A j \in 2..Len(LinesOf(Delivered[k].log)) :
                      ~isLogStart(LinesOf(Delivered[k].log)[j])

\* A closed stream of two logs, the first of more than one line.
C12_Witness ==
    /\ StreamClosed
    /\ Len(Delivered) = 2
    /\ Len(LinesOf(Delivered[1].log)) > 1
    /\ Delivered[1].log # Delivered[2].log

\* C13: the k-th log of the stream is delivered with number k, whether
\* processLine or finalize() emits it.
C13_SequenceNumbers ==
    (OneStream /\ (splitter.finalized = 0 \/ StreamClosed)) =>
        \A k \in DOMAIN Delivered : Delivered[k].number = k

\* What holds of the numbers: a log emitted by processLine carries the
\* number of the log the boundary line begins, one more than its own, and
\* the last log, emitted by finalize(), carries its own.
C13_NumbersAsEmitted ==
    (OneStream /\ (splitter.finalized = 0 \/ StreamClosed)) =>
        \A k \in DOMAIN Delivered :
            Delivered[k].number =
                IF splitter.finalized = 1 /\ k = Len(Delivered) THEN k ELSE k + 1

\* C14: while no boundary line has been fed the buffer is empty and no
\* callback has fired; and the lines delivered and buffered are the stream
\* from its first boundary line on, the lines before it are in no log.
C14_PrefixDiscarded ==
    /\ (splitter.resets = 0 /\ BoundaryPositions(Fed, 1) = <<>>) =>
           /\ splitter.obj.currentLog = <<>>
           /\ Delivered = <<>>
    /\ (OneStream /\ splitter.finalized = 0 /\ BoundaryPositions(Fed, 1) # <<>>) =>
           LinesDelivered(Delivered, 1) \o splitter.obj.currentLog
               = SubSeq(Fed, BoundaryPositions(Fed, 1)[1], Len(Fed))

\* A stream whose first line is a non-empty line that is no boundary, with a
\* boundary line after it.
C14_Witness ==
    /\ OneStream /\ splitter.finalized = 0
    /\ Len(Fed) >= 2
    /\ Fed[1] # <<>> /\ ~isLogStart(Fed[1])
    /\ BoundaryPositions(Fed, 1) # <<>>
    /\ splitter.obj.currentLog # <<>>

\* C15: finalize() delivers the buffered lines as one more log, numbered by
\* the header counter, when the buffer is non-empty (and there is a callback
\* to deliver to), and delivers nothing when it is empty; after a stream
\* without a boundary line nothing was delivered.
C15_Finalize ==
    splitter.op = "finalize" =>
        LET B == splitter.before
        IN  /\ IF Len(B.currentLog) > 0 /\ IsSome(B.onLogCallback)
               THEN /\ Len(Delivered) = Len(B.delivered) + 1
                    /\ SubSeq(Delivered, 1, Len(B.delivered)) = B.delivered
                    /\ LinesOf(Last(Delivered).log) = B.currentLog
                    /\ Last(Delivered).number = B.numLogs
               ELSE Delivered = B.delivered
            /\ (Len(B.currentLog) = 0 => Delivered = B.delivered)
            /\ (splitter.resets = 0 /\ BoundaryPositions(Fed, 1) = <<>>)
                   => Delivered = <<>>

\* finalize() delivered a buffer of a header line and more.
C15_Witness ==
    /\ splitter.op = "finalize"
    /\ Len(splitter.before.currentLog) > 1
    /\ Len(Delivered) = Len(splitter.before.delivered) + 1

RECURSIVE feedAll(_, _)
\* processLine on each line of a sequence, in order.
feedAll(T, lines) ==
    IF lines = <<>> THEN T ELSE feedAll(processLine(T, Head(lines)), Tail(lines))

\* The logs a fresh splitter delivers for a text fed line by line and
\* followed by finalize().
Resplit(text) ==
    finalize(feedAll(ApexLogSplitter(Some("onLog")), LinesOf(text))).delivered

\* C16: the lines of an emitted log, fed to a fresh splitter and followed by
\* finalize(), give exactly one log, with the same text.
C16_Idempotence ==
    \A k \in DOMAIN Delivered :
        /\ Len(Resplit(Delivered[k].log)) = 1
        /\ Resplit(Delivered[k].log)[1].log = Delivered[k].log

\* Two logs were emitted, one of them of several lines.
C16_Witness ==
    /\ Len(Delivered) >= 2
    /\ \E k \in DOMAIN Delivered : Len(LinesOf(Delivered[k].log)) > 1

\* The lines fed since the last reset().
FedSinceReset == SubSeq(Fed, splitter.resetAt + 1, Len(Fed))

\* C17: reset() empties the buffer and clears the header-seen flag and keeps
\* the header counter, the callback and what was delivered; after it, until
\* a boundary line is fed, the buffer stays empty and nothing is delivered,
\* by finalize() either.
C17_Reset ==
    /\ splitter.op = "reset" =>
           /\ splitter.obj.currentLog = <<>>
           /\ ~splitter.obj.hasFoundFirstLog
           /\ splitter.obj.numLogs = splitter.before.numLogs
           /\ splitter.obj.onLogCallback = splitter.before.onLogCallback
           /\ Delivered = splitter.before.delivered
    /\ (splitter.resets > 0 /\ BoundaryPositions(FedSinceReset, 1) = <<>>) =>
           /\ splitter.obj.currentLog = <<>>
           /\ Len(Delivered) = splitter.deliveredAtReset

\* reset() was called on a splitter with a header counted and a non-empty
\* buffer.
C17_Witness ==
    /\ splitter.op = "reset"
    /\ splitter.before.numLogs > 0
    /\ splitter.before.currentLog # <<>>
    /\ IsSome(splitter.obj.onLogCallback)

\* After a reset() of a splitter that had counted a header, lines without a
\* boundary were fed and finalize() called.
C17_WitnessAfter ==
    /\ splitter.op = "finalize"
    /\ splitter.obj.numLogs > 0
    /\ splitter.resets > 0
    /\ splitter.resetAt > 0
    /\ FedSinceReset # <<>>
    /\ BoundaryPositions(FedSinceReset, 1) = <<>>

-----------------------------------------------------------------------------
(* C18 - C19: parseGovernorLimits (checked under SpecUtils)                *)

\* parseGovernorLimits has returned for the block drawn.
LimitsParsed == call.fn = "parseGovernorLimits" /\ IsSome(call.result)

\* The lines of the block (none for an undefined block).
BlockLines == IF IsSome(call.arg) THEN call.arg[1] ELSE <<>>

\* A line parseUsageLine reads a label and two counts from.
WellFormed(line) ==
    /\ ~line.blank /\ IsSome(line.label) /\ line.outOf
    /\ IsSome(line.current) /\ IsSome(line.max)

Recognized(line) == IsSome(line.label) /\ line.label[1] \in LogStrings

\* The block without its lines of an unrecognized label.
RecognizedOnly(lines) == SelectSeq(lines, LAMBDA l : ~WellFormed(l) \/ Recognized(l))

\* C18: the record returned has exactly the twelve limit categories as its
\* keys, and the lines with an unrecognized label change nothing: the record
\* is the one returned for the block without them.
C18_TwelveCategories ==
    LimitsParsed =>
        /\ DOMAIN call.result[1] = LimitTypes
        /\ call.result[1] = parseGovernorLimits(Some(RecognizedOnly(BlockLines)))

\* What holds of C18: the twelve categories are always present and hold what
\* the recognized lines give; the one key a block can add is "undefined".
C18_TwelveCategoriesPresent ==
    LimitsParsed =>
        /\ LimitTypes \subseteq DOMAIN call.result[1]
        /\ DOMAIN call.result[1] \subseteq LimitTypes \cup {"undefined"}
        /\ \A t \in LimitTypes :
               call.result[1][t] = parseGovernorLimits(Some(RecognizedOnly(BlockLines)))[t]

\* The percentage current is of max, rounded to the nearest integer, a half
\* rounded up; 0 when max is 0.
ExpectedUsagePercentage(current, max) ==
    IF max = 0 THEN 0 ELSE (200 * current + max) \div (2 * max)

\* The block is one well-formed line of a recognized label.
OneRecognizedLine ==
    /\ LimitsParsed
    /\ Len(BlockLines) = 1
    /\ WellFormed(BlockLines[1]) /\ Recognized(BlockLines[1])

\* C19: for a block of one recognized line "<Label>: c out of m" the mapped
\* category is {c, m, round(c / m * 100)}, with percentage 0 when m is 0, and
\* the eleven other categories are {0, 0, 0}.
C19_LimitDefaulting ==
    OneRecognizedLine =>
        LET line == BlockLines[1]
            type == limitTypeByLogString[line.label[1]]
        IN  /\ call.result[1][type] =
                   [current |-> line.current[1], max |-> line.max[1],
                    usagePercentage |->
                        ExpectedUsagePercentage(line.current[1], line.max[1])]
            /\ \A t \in LimitTypes \ {type} : call.result[1][t] = defaultLimitDetails

\* What holds of C19: the claim for the counts whose percentage the double
\* arithmetic gives exactly.
C19_LimitDefaultingExact ==
    (OneRecognizedLine
        /\ <<BlockLines[1].current[1], BlockLines[1].max[1]>> \notin ShortOfHalf)
        => C19_LimitDefaulting

-----------------------------------------------------------------------------
(* C20: records with too few payload fields                                *)

\* The record handled last holds fewer payload fields than its handler
\* reads, and was dispatched with a current node to attach to.
ShortPayload ==
    /\ Dispatched
    /\ pre.currentNode # Null
    /\ \/ ev.type = "DML_BEGIN" /\ payloadLength(ev) < 3
       \/ ev.type \in {"METHOD_ENTRY", "LIMIT_USAGE_FOR_NS", "FATAL_ERROR"}
          /\ payloadLength(ev) = 0

\* C20: a record with fewer payload fields than its handler reads does not
\* raise: the parse goes on.
C20_ShortPayloadTolerated == ShortPayload => pc # "threw"

\* What holds instead: every such record ends the parse with a TypeError.
C20_ShortPayloadThrows == ShortPayload => pc = "threw"

-----------------------------------------------------------------------------
(* C22: the text of the identifiers                                        *)

\* C22: the id of every node is a zero-padded decimal string of fixed width,
\* 5 digits, holding only the counter value; the first id of a parse (the
\* ROOT node's) is '00001'.
C22_FixedWidthDecimal ==
    /\ \A i \in 1..Len(nodes) :
          LET t == idText(nodes[i].id)
          IN  /\ Len(t) = 5
              /\ \A k \in 1..Len(t) : t[k] \in Digits
              /\ t = padStart(toString(nodes[i].id), 5, "0")
    /\ idText(nodes[rootNode].id) = <<"0", "0", "0", "0", "1">>

\* What holds instead: every id is 'evt_' followed by the counter value
\* padded to 3 digits, and the counter values are those of creation order.
C22_PrefixedWidth3 ==
    \A i \in 1..Len(nodes) :
        LET t == idText(nodes[i].id)
        IN  /\ nodes[i].id = i
            /\ Len(t) = 7
            /\ SubSeq(t, 1, 4) = <<"e", "v", "t", "_">>
            /\ \A k \in 5..7 : t[k] \in Digits

-----------------------------------------------------------------------------
(* C23: event tags that fall to the default case of parseLine             *)

\* The record handled last was dispatched and its tag fell to the default
\* case.
UnknownCase == Dispatched /\ ev.type \notin KnownEventTypes

\* A MANAGED_PKG node was current when the record handled last arrived.
ManagedPkgWasCurrent ==
    pre.currentNode # Null /\ pre.nodes[pre.currentNode].type = "MANAGED_PKG"

\* C23: a record with an unknown tag leaves the node stack, the tree, the id
\* counter and the user unchanged, in every parser state.
C23_UnknownIgnored ==
    UnknownCase =>
        /\ nodeStack = pre.nodeStack
        /\ nodes = pre.nodes
        /\ currentNode = pre.currentNode
        /\ counter = pre.counter
        /\ user = pre.user

\* C23 as it holds: a record with an unknown tag leaves the id counter and
\* the user unchanged; the stack and the tree are unchanged too unless a
\* MANAGED_PKG node is current, and then that node alone is popped and may
\* get its timeEnd and durationMs, every other node staying as it was.
C23_UnknownIgnoredButManagedPkg ==
    UnknownCase =>
        /\ counter = pre.counter
        /\ user = pre.user
        /\ pc # "threw"
        /\ Len(nodes) = Len(pre.nodes)
        /\ IF ManagedPkgWasCurrent
           THEN /\ nodeStack = Front(pre.nodeStack)
                /\ currentNode = Last(nodeStack)
                /\ \A i \in 1..Len(nodes) :
                      IF i = pre.currentNode
                      THEN [nodes[i] EXCEPT !.timeEnd = None, !.durationMs = None]
                               = pre.nodes[i]
                      ELSE nodes[i] = pre.nodes[i]
           ELSE /\ nodeStack = pre.nodeStack
                /\ currentNode = pre.currentNode
                /\ nodes = pre.nodes

\* An unknown tag arrived while a MANAGED_PKG node was current below another
\* open node, and closed it.
C23_Witness ==
    /\ UnknownCase
    /\ ManagedPkgWasCurrent
    /\ Len(pre.nodeStack) >= 3
    /\ IsSome(nodes[pre.currentNode].timeEnd)

-----------------------------------------------------------------------------
(* C25: a closing event whose node is on top of the stack                  *)

\* The record handled last is a closing event and the node on top of the
\* stack when it arrived has the variant the table maps its tag to.
MatchedClose ==
    /\ Dispatched
    /\ ev.type \in ClosingEvents
    /\ pre.nodeStack # <<>>
    /\ pre.nodes[Last(pre.nodeStack)].type = mapTypeByTypeExit[ev.type]

\* Exactly the top node was popped; the nodes below it are open and as they
\* were, and the current node is the new top.
OnlyTopPopped ==
    /\ nodeStack = Front(pre.nodeStack)
    /\ nodeStack # <<>>
    /\ currentNode = Last(nodeStack)
    /\ Len(nodes) = Len(pre.nodes)
    /\ \A i \in 1..Len(nodes) : i # Last(pre.nodeStack) => nodes[i] = pre.nodes[i]

\* C25: on a matched close exactly the top node is popped and gets timeEnd =
\* the timestamp of the event; every other node on the stack stays open and
\* unchanged, and currentNode is the new top.
C25_MatchedClose ==
    MatchedClose =>
        /\ OnlyTopPopped
        /\ nodes[Last(pre.nodeStack)].timeEnd = Some(EventTime)

\* What holds of C25: the frame always, the timeEnd for the events whose
\* timestamp is not 0.
C25_MatchedCloseNonZero ==
    MatchedClose =>
        /\ OnlyTopPopped
        /\ EventTime # 0 => nodes[Last(pre.nodeStack)].timeEnd = Some(EventTime)
        /\ EventTime = 0 => nodes[Last(pre.nodeStack)].timeEnd = None

-----------------------------------------------------------------------------
(* C26: the shape of the tree                                              *)

\* The nodes of a heap whose children list refers to node i.
Holders(heap, i) ==
    {p \in 1..Len(heap) : \E k \in DOMAIN heap[p].children : heap[p].children[k] = i}

\* The node whose children list holds node i.
HolderOf(heap, i) == CHOOSE p \in Holders(heap, i) : TRUE

\* The positions of the children list of node p that refer to node i.
Positions(heap, p, i) == {k \in DOMAIN heap[p].children : heap[p].children[k] = i}

RECURSIVE ReachesRoot(_, _, _)
\* Following parentId from node i reaches the root within fuel steps.
ReachesRoot(heap, i, fuel) ==
    IF heap[i].type = "ROOT" THEN TRUE
    ELSE IF fuel = 0 \/ heap[i].parentId = None THEN FALSE
    ELSE \E p \in 1..Len(heap) :
            /\ heap[p].id = heap[i].parentId[1]
            /\ ReachesRoot(heap, p, fuel - 1)

\* C26: at every point of a parse every non-ROOT node appears exactly once
\* in the children list of exactly one node, which is the node that was
\* current when it was created and whose id is the child's parentId;
\* following parentId from any node reaches ROOT.
C26_TreeShape ==
    /\ Holders(nodes, rootNode) = {}
    /\ nodes[rootNode].type = "ROOT"
    /\ \A i \in 1..Len(nodes) :
          /\ ReachesRoot(nodes, i, Len(nodes))
          /\ i # rootNode =>
                /\ Cardinality(Holders(nodes, i)) = 1
                /\ Cardinality(Positions(nodes, HolderOf(nodes, i), i)) = 1
                /\ nodes[i].parentId = Some(nodes[HolderOf(nodes, i)].id)
                /\ IF i <= Len(pre.nodes)
                   THEN HolderOf(nodes, i) = HolderOf(pre.nodes, i)
                   ELSE /\ DispatchStack # <<>>
                        /\ HolderOf(nodes, i) = Last(DispatchStack)

\* A node was created by a record that arrived while a MANAGED_PKG node was
\* current inside another node: its parent is that other node.
C26_Witness ==
    /\ ManagedPkgWasCurrent
    /\ Len(nodes) = Len(pre.nodes) + 1
    /\ Len(nodes) >= 4
    /\ nodes[Len(nodes)].parentId \notin {Some(pre.currentNode), Some(rootNode)}

-----------------------------------------------------------------------------
(* C27: closed nodes stay closed                                           *)

\* C27: a node that is off the stack never returns to it, never gains a
\* child and none of its fields changes; a children list changes only by an
\* append of the node just created, and only the list of the node on top of
\* the stack when the node is created.
C27_NoReopen ==
    /\ Len(nodes) >= Len(pre.nodes)
    /\ \A i \in 1..Len(pre.nodes) :
          /\ i \notin StackSet(pre.nodeStack) =>
                /\ i \notin StackSet(nodeStack)
                /\ nodes[i] = pre.nodes[i]
          /\ nodes[i].children # pre.nodes[i].children =>
                /\ Len(nodes) = Len(pre.nodes) + 1
                /\ nodes[i].children = Append(pre.nodes[i].children, Len(nodes))
                /\ DispatchStack # <<>>
                /\ i = Last(DispatchStack)
    /\ \A i \in (Len(pre.nodes) + 1)..Len(nodes) : nodes[i].children = <<>>

\* A record created a node while a node closed earlier, with its timeEnd,
\* was in the tree.
C27_Witness ==
    /\ Dispatched
    /\ Len(nodes) = Len(pre.nodes) + 1
    /\ \E i \in 1..Len(pre.nodes) :
          /\ i \notin StackSet(pre.nodeStack)
          /\ IsSome(pre.nodes[i].timeEnd)
          /\ pre.nodes[i].children # <<>>

-----------------------------------------------------------------------------
(* C28: timeEnd and durationMs of open and closed nodes                    *)

\* The nodes the claim is about: every variant but ROOT and LIMIT.
Timed(i) == nodes[i].type \notin {"ROOT", "LIMIT"}

\* C28: a non-ROOT node of a variant other than LIMIT has timeEnd and
\* durationMs if and only if it is no longer on the stack, whatever the
\* timestamp of the event that popped it.
C28_ClosedIffStamped ==
    \A i \in 1..Len(nodes) :
        Timed(i) =>
            /\ i \in StackSet(nodeStack) =>
                  nodes[i].timeEnd = None /\ nodes[i].durationMs = None
            /\ i \notin StackSet(nodeStack) =>
                  IsSome(nodes[i].timeEnd) /\ IsSome(nodes[i].durationMs)

\* What holds of C28: open nodes have neither field, a node has both or
\* neither, and a node popped by the record handled last has both exactly
\* when the timestamp of that record is not 0.
C28_ClosedIffStampedNonZero ==
    \A i \in 1..Len(nodes) :
        Timed(i) =>
            /\ i \in StackSet(nodeStack) =>
                  nodes[i].timeEnd = None /\ nodes[i].durationMs = None
            /\ IsSome(nodes[i].timeEnd) <=> IsSome(nodes[i].durationMs)
            /\ (Dispatched /\ i \notin StackSet(nodeStack)
                  /\ (i \in StackSet(pre.nodeStack) \/ i > Len(pre.nodes))) =>
                  (IsSome(nodes[i].timeEnd) <=> EventTime # 0)

-----------------------------------------------------------------------------
(* C29: LIMIT_USAGE_FOR_NS                                                 *)

\* The record handled last was a dispatched LIMIT_USAGE_FOR_NS.
LimitCase == Dispatched /\ ev.type = "LIMIT_USAGE_FOR_NS"

\* The record handled last added one LIMIT node as the last child of the
\* node that was current at dispatch, and left the stack as it was then.
LimitLeafAdded ==
    LET n == Len(nodes)
    IN  /\ Len(nodes) = Len(pre.nodes) + 1
        /\ nodes[n].type = "LIMIT"
        /\ DispatchStack # <<>>
        /\ nodes[Last(DispatchStack)].children
               = Append(pre.nodes[Last(DispatchStack)].children, n)
        /\ nodeStack = DispatchStack
        /\ currentNode = Last(nodeStack)

\* No LIMIT node has children, a timeEnd or a durationMs.
LimitNodesBare ==
    \A i \in 1..Len(nodes) :
        nodes[i].type = "LIMIT" =>
            /\ nodes[i].children = <<>>
            /\ nodes[i].timeEnd = None
            /\ nodes[i].durationMs = None
            /\ i \notin StackSet(nodeStack)

\* C29: LIMIT_USAGE_FOR_NS adds one LIMIT node as the last child of the
\* current node and pops it in the same step, the stack being afterwards what
\* it was after the implicit managed-package check; a LIMIT node never has
\* children, a timeEnd or a durationMs.
C29_LimitLeaf == LimitNodesBare /\ (LimitCase => LimitLeafAdded)

\* What holds of C29: the claim for every such record whose handler returns;
\* the handler raises exactly when the record has no payload field or no
\* node is current.
C29_LimitLeafWhenHandled ==
    /\ LimitNodesBare
    /\ LimitCase =>
          /\ pc = "threw" <=> (payloadLength(ev) = 0 \/ DispatchStack = <<>>)
          /\ pc # "threw" => LimitLeafAdded
          /\ pc = "threw" => Len(nodes) = Len(pre.nodes) /\ nodeStack = DispatchStack

-----------------------------------------------------------------------------
(* C30: the row count of SOQL_EXECUTE_END                                  *)

\* The record handled last was a dispatched SOQL_EXECUTE_END.
SoqlEndCase == Dispatched /\ ev.type = "SOQL_EXECUTE_END"

\* The nodes whose rows field the record handled last has written.
RowsWritten == {i \in 1..Len(pre.nodes) : nodes[i].rows # pre.nodes[i].rows}

\* The positions of a stack that hold a SOQL node.
SoqlPositions(stack) == {k \in DOMAIN stack : pre.nodes[stack[k]].type = "SOQL"}

\* The topmost position of a stack that holds a SOQL node.
TopSoql(stack) ==
    CHOOSE k \in SoqlPositions(stack) : \A j \in SoqlPositions(stack) : j <= k

\* A node is created without a row count, unless it is a DML node, which
\* takes its own from DML_BEGIN; no other variant than SOQL and DML has one.
RowsOnSoqlOnly ==
    /\ \A i \in 1..Len(nodes) :
          IsSome(nodes[i].rows) => nodes[i].type \in {"SOQL", "DML"}
    /\ \A i \in (Len(pre.nodes) + 1)..Len(nodes) :
          IsSome(nodes[i].rows) => nodes[i].type = "DML" /\ ev.type = "DML_BEGIN"

\* With the given stack taken as the one the event finds: the row count is
\* written only onto a SOQL node on top of it, and when other nodes are open
\* above the topmost SOQL node they are unwound and that node is closed with
\* rows unset.
RowsRule(stack) ==
    /\ RowsOnSoqlOnly
    /\ \A i \in RowsWritten :
          /\ SoqlEndCase
          /\ stack # <<>> /\ i = Last(stack)
          /\ nodes[i].type = "SOQL"
          /\ nodes[i].rows = Some(extractRows(ev.rows))
    /\ (SoqlEndCase /\ SoqlPositions(stack) # {}) =>
          LET k == TopSoql(stack)
          IN  /\ nodeStack = SubSeq(stack, 1, k - 1)
              /\ k < Len(stack) => nodes[stack[k]].rows = None
              /\ k = Len(stack) => nodes[stack[k]].rows = Some(extractRows(ev.rows))

\* C30: the row count is written onto a SOQL node only when that node is
\* the current node when the event arrives; with other nodes open above it
\* the event unwinds them and closes the SOQL node with rows unset; no node
\* of another variant receives the row count.
C30_RowsOnlyOnCurrent == RowsRule(pre.nodeStack)

\* C30 as it holds: the same with the current node taken at dispatch, that
\* is after the implicit close of a MANAGED_PKG node that was current.
C30_RowsOnlyOnCurrentAtDispatch == RowsRule(DispatchStack)

\* A SOQL_EXECUTE_END arrived while a MANAGED_PKG node was current right
\* above a SOQL node, and the row count was written onto the SOQL node.
C30_Witness ==
    /\ SoqlEndCase
    /\ ManagedPkgWasCurrent
    /\ RowsWritten # {}
    /\ pre.currentNode \notin RowsWritten

-----------------------------------------------------------------------------
(* C24: the exit code of the file mode                                     *)

\* processFiles has exited.
Exited == call.fn = "processFiles" /\ IsSome(call.result)

\* The positions of the files that were parsed and printed.
PrintedFiles == StackSet(call.result[1].printed)

\* The files printed are those that pass verifyLogFile's tests and whose
\* parse returns.
PrintedAsParsed ==
    \A i \in 1..Len(call.arg) :
        i \in PrintedFiles <=>
            /\ call.arg[i].extname = ".log"
            /\ call.arg[i].stat = "file"
            /\ call.arg[i].access
            /\ call.arg[i].parses

\* The exit code is 0 exactly when every file of the given set was printed,
\* 1 exactly when none was, 2 exactly when some was and some of the set was
\* not.
ExitCodeRule(mustBePrinted) ==
    LET code == call.result[1].exitCode
    IN  /\ code \in {0, 1, 2}
        /\ code = 0 <=> (PrintedFiles # {} /\ mustBePrinted \subseteq PrintedFiles)
        /\ code = 1 <=> PrintedFiles = {}
        /\ code = 2 <=> (PrintedFiles # {} /\ ~(mustBePrinted \subseteq PrintedFiles))

\* C24: exit code 0 exactly when every file given was parsed and printed, 1
\* when none was, 2 when at least one was and at least one was not.
C24_ExitCodes ==
    Exited => PrintedAsParsed /\ ExitCodeRule(1..Len(call.arg))

\* C24 as it holds: the files that count are those with the extension
\* '.log'; a file with another extension is skipped and does not make the
\* exit code 2.
C24_ExitCodesOfLogFiles ==
    Exited =>
        /\ PrintedAsParsed
        /\ ExitCodeRule({i \in 1..Len(call.arg) : call.arg[i].extname = ".log"})

\* Two files were given, a '.log' file that was printed and a file with
\* another extension, and the exit code is 0.
C24_Witness ==
    /\ Exited
    /\ Len(call.arg) = 2
    /\ PrintedFiles # {}
    /\ \E i \in 1..2 : call.arg[i].extname # ".log"
    /\ call.result[1].exitCode = 0

-----------------------------------------------------------------------------
(* C21: parses on one instance are independent                             *)

RECURSIVE parseAll(_, _, _)
\* The loop of parse() over the records of a log from position i on; a
\* TypeError ends it.
parseAll(S, log, i) ==
    IF i > Len(log) \/ S.threw THEN S
    ELSE parseAll(parseLine(S, log[i]), log, i + 1)

\* What a new instance has after parsing the current log as far as it has
\* been read.
OnNewInstance == parseAll(Started(run.header), run.log, 1)

\* C21: whatever the instance parsed before, a parse on it gives what the
\* same log gives on a new instance: ids, tree, user, log levels at every
\* point, and the same ParsedLog (events and duration included) or the same
\* TypeError at its end.
C21_ParsesIndependent ==
    /\ nodes = OnNewInstance.nodes
    /\ rootNode = OnNewInstance.rootNode
    /\ currentNode = OnNewInstance.currentNode
    /\ nodeStack = OnNewInstance.nodeStack
    /\ counter = OnNewInstance.counter
    /\ user = OnNewInstance.user
    /\ logLevels = OnNewInstance.logLevels
    /\ pc = "threw" <=> OnNewInstance.threw
    /\ pc = "done" => out = Some(buildOutput(OnNewInstance))
    /\ pc # "done" => out = None

\* A second parse returned, of a log without levels in its header and with
\* no USER_INFO, on an instance whose first parse had found both and raised.
C21_Witness ==
    /\ run.parses = 2
    /\ run.left.pc = "threw"
    /\ IsSome(run.left.user)
    /\ run.header = HeaderWithoutLevels
    /\ pc = "done"
    /\ Len(run.log) >= 2
    /\ user = None
    /\ out[1].logLevel = <<>>
    /\ out[1].events # <<>>

-----------------------------------------------------------------------------
(* C31: the state a FATAL_ERROR leaves                                     *)

\* The nodes that were open above the nearest enclosing CODE_UNIT (or ROOT)
\* when the FATAL_ERROR handled last was dispatched.
OpenAboveEnclosing ==
    LET k == Enclosing(DispatchStack)
    IN  {DispatchStack[j] : j \in (k + 1)..Len(DispatchStack)}

\* The current node is an open CODE_UNIT or ROOT, the EXCEPTION leaf is in
\* place, and the nodes that were open above the CODE_UNIT (or ROOT) are off
\* the stack.
FatalFrame ==
    /\ currentNode # Null
    /\ nodes[currentNode].type \in {"CODE_UNIT", "ROOT"}
    /\ nodeStack # <<>> /\ currentNode = Last(nodeStack)
    /\ nodes[currentNode].timeEnd = None
    /\ ExceptionLeafCreated
    /\ \A i \in OpenAboveEnclosing : i \notin StackSet(nodeStack)

\* C31: after a FATAL_ERROR the current node is a CODE_UNIT or ROOT and still
\* open, the EXCEPTION node is a childless child of the node current at
\* dispatch, and every node that was open above the nearest enclosing
\* CODE_UNIT (or ROOT) has been popped with timeEnd = the event's timestamp.
C31_FatalLeavesCodeUnit ==
    FatalCase =>
        /\ FatalFrame
        /\ \A i \in OpenAboveEnclosing : nodes[i].timeEnd = Some(EventTime)

\* What holds of C31: the frame for every timestamp, the timeEnd of the
\* popped nodes for the timestamps other than 0.
C31_FatalLeavesCodeUnitNonZero ==
    FatalCase =>
        /\ FatalFrame
        /\ \A i \in OpenAboveEnclosing :
              nodes[i].timeEnd = IF EventTime # 0 THEN Some(EventTime) ELSE None

-----------------------------------------------------------------------------
(* C32: incremental emission (checked under SpecSplitter)                  *)

\* C32: a processLine call invokes the callback at most once, and only for
\* a boundary line, with the buffer as it was before that line was put in
\* it; so in one stream, while finalize() has not been called, the logs
\* delivered are the logs before the last boundary line, in stream order,
\* and the last log is in the buffer.
C32_IncrementalEmission ==
    /\ splitter.op = "processLine" =>
          LET B == splitter.before
              line == Last(Fed)
          IN  /\ Len(Delivered) \in {Len(B.delivered), Len(B.delivered) + 1}
              /\ SubSeq(Delivered, 1, Len(B.delivered)) = B.delivered
              /\ Len(Delivered) > Len(B.delivered) =>
                    /\ isLogStart(line)
                    /\ LinesOf(Last(Delivered).log) = B.currentLog
                    /\ splitter.obj.currentLog = <<line>>
    /\ (OneStream /\ splitter.finalized = 0) =>
          LET b == BoundaryPositions(Fed, 1)
          IN  /\ Len(Delivered) = IF b = <<>> THEN 0 ELSE Len(b) - 1
              /\ \A k \in DOMAIN Delivered :
                    LinesOf(Delivered[k].log) = SubSeq(Fed, b[k], b[k + 1] - 1)
              /\ b # <<>> => splitter.obj.currentLog = SubSeq(Fed, b[Len(b)], Len(Fed))

\* The second boundary line of a stream was just processed: the first log,
\* of more than one line, was emitted by that call.
C32_Witness ==
    /\ OneStream /\ splitter.finalized = 0
    /\ splitter.op = "processLine"
    /\ Len(Delivered) = 1
    /\ splitter.before.delivered = <<>>
    /\ Len(splitter.before.currentLog) > 1

-----------------------------------------------------------------------------
(* C33: MANAGED_PKG nodes are leaves                                       *)

\* C33: no MANAGED_PKG node ever has a child: a record that creates a node
\* while a MANAGED_PKG node is current closes it first, and the node goes
\* under the node below it.
C33_ManagedPkgLeaf ==
    /\ \A i \in 1..Len(nodes) :
          nodes[i].type = "MANAGED_PKG" => nodes[i].children = <<>>
    /\ (ManagedPkgWasCurrent /\ Len(nodes) > Len(pre.nodes)) =>
          /\ pre.currentNode \notin StackSet(nodeStack)
          /\ nodes[Len(nodes)].parentId = pre.nodes[pre.currentNode].parentId

\* A record created a node while a MANAGED_PKG node was current: the two
\* are siblings.
C33_Witness ==
    /\ ManagedPkgWasCurrent
    /\ Len(nodes) = Len(pre.nodes) + 1
    /\ nodes[Len(nodes)].type # "MANAGED_PKG"
    /\ nodes[Len(nodes)].parentId = nodes[pre.currentNode].parentId
    /\ Len(nodes) \in StackSet(nodeStack)

-----------------------------------------------------------------------------
(* C34: every log is delivered at most once (checked under SpecSplitter)   *)

\* The stream from its first boundary line on (empty when it has none).
FromFirstBoundary ==
    IF BoundaryPositions(Fed, 1) = <<>> THEN <<>>
    ELSE SubSeq(Fed, BoundaryPositions(Fed, 1)[1], Len(Fed))

\* The lines delivered so far are the first lines of the stream from its
\* first boundary line on, each once and in order.
DeliveredOnce ==
    LET d == LinesDelivered(Delivered, 1)
    IN  /\ Len(d) <= Len(FromFirstBoundary)
        /\ d = SubSeq(FromFirstBoundary, 1, Len(d))

\* C34: in one stream every log is delivered at most once: whatever calls
\* of processLine and finalize() were made, a second finalize() included, the
\* lines delivered hold no line of the stream twice.
C34_AtMostOnce == OneStream => DeliveredOnce

\* What holds of C34: no line is delivered twice as long as finalize() is
\* the last call made on the splitter.
C34_AtMostOnceUpToFinalize ==
    (OneStream /\ (splitter.finalized = 0 \/ splitter.op = "finalize")) =>
        DeliveredOnce

-----------------------------------------------------------------------------
(* C35: the split loses nothing after the first boundary line (checked     *)
(* under SpecSplitter)                                                     *)

RECURSIVE JoinedLogs(_, _)
\* The logs delivered from the k-th on, joined with newlines.
JoinedLogs(d, k) ==
    IF k > Len(d) THEN <<>>
    ELSE IF k = Len(d) THEN d[k].log
    ELSE d[k].log \o <<"\n">> \o JoinedLogs(d, k + 1)

\* C35: when a stream has been fed and finalize() was called once at its
\* end, the logs delivered, joined with newlines in the order of delivery,
\* are the lines of the stream from its first boundary line on, joined with
\* newlines: no such line is dropped, duplicated or reordered.
C35_Lossless ==
    StreamClosed =>
        /\ JoinedLogs(Delivered, 1) = join(FromFirstBoundary)
        /\ LinesDelivered(Delivered, 1) = FromFirstBoundary
        /\ (Delivered = <<>>) = (FromFirstBoundary = <<>>)

\* A closed stream of three lines: a line that is no boundary, a boundary
\* line and one more line; the first is in no log.
C35_Witness ==
    /\ StreamClosed
    /\ Len(Fed) = MaxLines
    /\ ~isLogStart(Fed[1]) /\ Fed[1] # <<>>
    /\ isLogStart(Fed[2])
    /\ Len(LinesDelivered(Delivered, 1)) = MaxLines - 1

-----------------------------------------------------------------------------
(* C36: interval nesting                                                   *)

\* A node is closed when it carries a timeEnd.
Closed(i) == IsSome(nodes[i].timeEnd)

\* The tree is one that records with positive timestamps have built: every
\* node a record opened starts after 0, and every such node that was popped
\* was stamped.  (The timestamps of the general generator that are not 0
\* increase from record to record.)
PositiveStamps ==
    \A i \in 1..Len(nodes) :
        Timed(i) =>
            /\ nodes[i].timeStart[1] > 0
            /\ i \notin StackSet(nodeStack) => Closed(i)

\* The interval of a closed node: it starts no later than it ends and its
\* duration is not negative.
IntervalOf(i) ==
    /\ IsSome(nodes[i].timeStart)
    /\ nodes[i].timeStart[1] <= nodes[i].timeEnd[1]
    /\ IsSome(nodes[i].durationMs)
    /\ nodes[i].durationMs[1] >= 0

\* A closed child of a closed parent other than ROOT lies within it.
ChildrenWithin ==
    \A p \in 1..Len(nodes) :
        (Closed(p) /\ nodes[p].type # "ROOT") =>
            \A k \in DOMAIN nodes[p].children :
                LET c == nodes[p].children[k]
                IN  Closed(c) =>
                        /\ nodes[p].timeStart[1] <= nodes[c].timeStart[1]
                        /\ nodes[c].timeEnd[1] <= nodes[p].timeEnd[1]

\* C36: when the timestamps of the records are positive and do not
\* decrease, every closed node has timeStart <= timeEnd and a durationMs
\* of at least 0, and every closed child of a closed parent other than ROOT
\* starts no earlier and ends no later than the parent.
C36_IntervalNesting ==
    PositiveStamps =>
        /\ \A i \in 1..Len(nodes) : Closed(i) => IntervalOf(i)
        /\ ChildrenWithin

\* What holds of C36: the same for every closed node but ROOT, which has no
\* timeStart when a closing record without an open node pops and stamps it.
C36_IntervalNestingBelowRoot ==
    PositiveStamps =>
        /\ \A i \in 1..Len(nodes) :
               (Closed(i) /\ nodes[i].type # "ROOT") => IntervalOf(i)
        /\ \A i \in 1..Len(nodes) :
               (Closed(i) /\ nodes[i].type = "ROOT") =>
                   /\ nodes[i].timeStart = None
                   /\ nodes[i].durationMs = Some(0)
                   /\ nodeStack = <<>>
        /\ ChildrenWithin

\* A closed parent with a closed child, both closed by one record, and the
\* child opened after the parent.
C36_NestedPairClosed ==
    /\ PositiveStamps
    /\ \E p \in 2..Len(nodes) :
           /\ Closed(p)
           /\ \E k \in DOMAIN nodes[p].children :
                  LET c == nodes[p].children[k]
                  IN  /\ Closed(c)
                      /\ nodes[c].timeStart[1] > nodes[p].timeStart[1]
                      /\ nodes[c].timeEnd = nodes[p].timeEnd

-----------------------------------------------------------------------------
(* C37: a log that ends while nodes are open                               *)

\* The nodes other than ROOT that are on the stack.
OpenNodes == StackSet(nodeStack) \ {rootNode}

\* parse() has returned a result while nodes other than ROOT were open.
Truncated == pc = "done" /\ OpenNodes # {}

\* The entries of the events list of the result that stand for node i.
EventsOf(i) == {k \in DOMAIN out[1].events : out[1].events[k].id = nodes[i].id}

\* C37: when the input ends while nodes other than ROOT are open, the
\* result holds each of them, in the tree under ROOT and once in events,
\* without timeEnd and durationMs, and meta.durationMs is the sum over the
\* top-level nodes that are closed: an open top-level node adds 0.
C37_TruncatedLog ==
    Truncated =>
        /\ out[1].tree = rootNode
        /\ \A i \in OpenNodes :
               /\ ReachesRoot(nodes, i, Len(nodes))
               /\ nodes[i].timeEnd = None /\ nodes[i].durationMs = None
               /\ Cardinality(EventsOf(i)) = 1
               /\ \A k \in EventsOf(i) :
                      /\ out[1].events[k].timeEnd = None
                      /\ out[1].events[k].durationMs = None
                      /\ out[1].events[k].timeStart = nodes[i].timeStart
        /\ out[1].durationMs = SumOfDurations(TopLevel \ OpenNodes)

\* A result with a closed top-level node of non-zero duration followed by
\* a top-level node that is still open.
C37_Witness ==
    /\ Truncated
    /\ out[1].durationMs > 0
    /\ \E i \in OpenNodes \cap TopLevel :
           /\ IsSome(nodes[i].timeStart) /\ nodes[i].timeStart[1] > 0
           /\ \E j \in TopLevel : j < i /\ DurationOf(j) > 0

-----------------------------------------------------------------------------
(* C38: the first line of the input (checked under SpecReuse)              *)

\* A recognizable header: a version number, a space and the declaration of
\* the level of APEX_CODE.
isHeaderLine(line) ==
    /\ Len(line) >= 4
    /\ line[1] = "64.0" /\ line[2] = " " /\ line[3] = "APEX_CODE" /\ line[4] = ","

\* parse() has handled the first line of its input and no record yet.
FirstLineHandled == pc = "parsing" /\ nEvents = 0

\* The first line left the tree, the stack, the id counter and the user as
\* reset() made them, and no record of the log stands for it.
FirstLineNotDispatched ==
    /\ FirstLineHandled =>
           /\ nodes = reset.nodes
           /\ nodeStack = reset.nodeStack
           /\ currentNode = reset.currentNode
           /\ counter = reset.counter
           /\ user = None
           /\ run.log = <<>>
    /\ Len(run.log) = nEvents

\* C38: the first line of the input is consumed as the header and is never
\* dispatched: whatever it is, an event record included, it creates no node
\* and changes neither the stack nor the user; and when it is not a
\* recognizable header the log-level list is empty.
C38_FirstLineIsHeader ==
    /\ FirstLineNotDispatched
    /\ ~isHeaderLine(run.header) => logLevels = <<>>

\* What holds of C38: the first line is never dispatched, and a first line
\* that is not a recognizable header gives an empty log-level list when it
\* has no space or no comma; one with a comma after its first space gives
\* the text before and after the comma as a log level.
C38_FirstLineIsHeaderWithoutComma ==
    /\ FirstLineNotDispatched
    /\ (~isHeaderLine(run.header)
          /\ \A k \in DOMAIN run.header : run.header[k] # ",") => logLevels = <<>>
    /\ run.header = EventRecordLineWithComma =>
          /\ Len(logLevels) = 1
          /\ logLevels[1].type # <<"APEX_CODE">>

\* A parse whose first line is an event record that names a user: the user
\* is not taken from it, and the log has no levels.
C38_EventRecordAsFirstLine ==
    /\ FirstLineHandled
    /\ run.parses > 1
    /\ IsSome(run.left.user)
    /\ run.header = EventRecordLine
    /\ user = None /\ logLevels = <<>>

-----------------------------------------------------------------------------
(* C39: several lines of one category (checked under SpecUtils)            *)

\* The positions of the lines of the block that parseUsageLine reads counts
\* from and whose label maps to the category.
LinesOfCategory(category) ==
    {k \in DOMAIN BlockLines :
        /\ WellFormed(BlockLines[k]) /\ Recognized(BlockLines[k])
        /\ limitTypeByLogString[BlockLines[k].label[1]] = category}

\* The last of a non-empty set of positions.
LastOf(positions) == CHOOSE k \in positions : \A h \in positions : h <= k

\* C39: a category that several lines of a block map to ends with the
\* values of the last of these lines, as if that line were alone in the
\* block: the values of the earlier lines are overwritten, not summed and
\* not kept; a category no line maps to keeps the default values.
C39_LastLineWins ==
    LimitsParsed =>
        \A category \in LimitTypes :
            call.result[1][category] =
                IF LinesOfCategory(category) = {} THEN defaultLimitDetails
                ELSE LET last == BlockLines[LastOf(LinesOfCategory(category))]
                     IN  parseGovernorLimits(Some(<<last>>))[category]

\* A block with a line 'Number of DML statements' and after it a line
\* 'Number of Publish Immediate DML' with other counts, none of them 0:
\* DML_STATEMENTS has the counts of the second.
C39_Witness ==
    /\ LimitsParsed
    /\ Len(BlockLines) = 2
    /\ LinesOfCategory("DML_STATEMENTS") = {1, 2}
    /\ BlockLines[1].label = Some("Number of DML statements")
    /\ BlockLines[2].label = Some("Number of Publish Immediate DML")
    /\ BlockLines[1].current[1] > 0 /\ BlockLines[1].max[1] > 0
    /\ BlockLines[2].current[1] > 0 /\ BlockLines[2].max[1] > 0
    /\ BlockLines[1].current # BlockLines[2].current
    /\ BlockLines[1].max # BlockLines[2].max
    /\ call.result[1]["DML_STATEMENTS"].current = BlockLines[2].current[1]
    /\ call.result[1]["DML_STATEMENTS"].max = BlockLines[2].max[1]

====
